---- MODULE Spec2Model ----
(***************************************************************************)
(* katha: the Model / Message / update reducer (src/tea), the search and   *)
(* filter engine (src/search) and the host main loop with its export       *)
(* worker (src/tui/app.rs, src/tui/event.rs).                              *)
(*                                                                         *)
(* Conventions.  Option<T> is a sequence of length 0 (None) or 1 (Some).   *)
(* Rust indices are 0-based and are kept 0-based in the state; they are    *)
(* shifted by one only where a TLA+ sequence is indexed.  A String is a    *)
(* sequence of one-character strings.  Time is counted in days; the clock  *)
(* starts at day 0 and history timestamps are days before it.              *)
(* Display-only fields (formatted_time, preview_session, theme, currency,  *)
(* detail cursor) are not part of the state.                               *)
(* input is what a function under study reads from outside the program     *)
(* (the files under the home directory, a path string) and result what it  *)
(* returns; both are empty while the main loop runs.                       *)
(***************************************************************************)
EXTENDS Integers, Sequences, FiniteSets, Bags, TLC

VARIABLES model, pc, async_chan, workers, load_log, now, input, result

vars == <<model, pc, async_chan, workers, load_log, now, input, result>>

(***************************************************************************)
(* Bounds                                                                  *)
(***************************************************************************)
\* longest text typed into the search bar or the project filter field
MaxTextLen == 2
\* most export worker threads alive at the same time
MaxWorkers == 2
\* days the clock advances while the program runs
MaxClock == 1
\* entries of a history file
MaxLines == 2
\* transcript files under the Codex sessions directory
MaxFiles == 1
\* history timestamps are 0..MaxTimestamp seconds after the Unix epoch
MaxTimestamp == 2
\* characters of a project path handed to the path encoders
MaxPathLen == 3
\* sessions of a list handed to the search engine
MaxSessions == 2
\* lines of a Codex transcript
MaxTranscript == 3
\* calls of write_to_file in a row
MaxWrites == 3
\* characters of the project path of an exported session
MaxNameLen == 2
\* fragments a model name is put together from
MaxPieces == 3
\* history entries of one project in the count mode
MaxPerProject == 2

\* characters the user types into text fields
Chars == {"a"}

(***************************************************************************)
(* Option and sequence helpers                                             *)
(***************************************************************************)
None == <<>>
Some(x) == <<x>>
IsSome(o) == o /= <<>>

\* Iterator::position: 0-based index of the first element satisfying the
\* closure, given the set of the 1-based positions that satisfy it
Position(hits) ==
    IF hits /= {}
    THEN Some((CHOOSE i \in hits : \A j \in hits : i <= j) - 1)
    ELSE None

\* slice::get with a 0-based index
Get(s, i) == IF i >= 0 /\ i < Len(s) THEN Some(s[i + 1]) ELSE None

RECURSIVE Concat(_)
Concat(ss) == IF ss = <<>> THEN <<>> ELSE Head(ss) \o Concat(Tail(ss))

\* String::pop
Pop(s) == IF s = <<>> THEN s ELSE SubSeq(s, 1, Len(s) - 1)

LowerChar(c) ==
    IF c = "A" THEN "a" ELSE IF c = "B" THEN "b" ELSE IF c = "GPT" THEN "gpt" ELSE c
\* str::to_lowercase
to_lowercase(s) == [i \in 1..Len(s) |-> LowerChar(s[i])]
\* str::contains
contains(hay, needle) ==
    \E i \in 0..(Len(hay) - Len(needle)) : SubSeq(hay, i + 1, i + Len(needle)) = needle

(***************************************************************************)
(* The project index the program starts from (result of load_sessions)     *)
(***************************************************************************)
SessionListItem(id, path, name, text, day) ==
    [session_id |-> id, project_path |-> path, project_name |-> name,
     latest_user_message |-> text, datetime |-> day]

ProjectGroup(path, name, sessions) ==
    [project_path |-> path, project_name |-> name, sessions |-> sessions]

\* two projects; sessions newest first, groups by newest session
IndexTwoProjects ==
    << ProjectGroup("/w/b", <<"b">>,
          << SessionListItem("s1", "/w/b", <<"b">>, <<"a", "A">>, 0),
             SessionListItem("s2", "/w/b", <<"b">>, <<"b">>, 0 - 5) >>),
       ProjectGroup("/w/a", <<"a">>,
          << SessionListItem("s3", "/w/a", <<"a">>, <<"b">>, 0 - 40) >>) >>

\* one project with two sessions
IndexOneProject ==
    << ProjectGroup("/w/b", <<"b">>,
          << SessionListItem("s1", "/w/b", <<"b">>, <<"a", "A">>, 0),
             SessionListItem("s2", "/w/b", <<"b">>, <<"b">>, 0 - 5) >>) >>

\* one project with a single session
IndexOneSession ==
    << ProjectGroup("/w/b", <<"b">>,
          << SessionListItem("s1", "/w/b", <<"b">>, <<"a", "A">>, 0) >>) >>

\* the project indexes a run may start from (an empty history included)
ProjectIndexes == { <<>>, IndexOneProject, IndexTwoProjects }

(***************************************************************************)
(* src/search                                                              *)
(***************************************************************************)
NoDateRange == [from |-> None, to |-> None]

\* DateRange::today / last_week / last_month, evaluated on the clock
DateRange_today == [from |-> Some(now), to |-> Some(now)]
DateRange_last_week == [from |-> Some(now - 7), to |-> Some(now)]
DateRange_last_month == [from |-> Some(now - 30), to |-> Some(now)]

DateRange_is_set(r) == IsSome(r.from) \/ IsSome(r.to)

\* variant: the two ends of the range are left out
DateRange_contains_exclusive(r, dt) ==
    /\ ~(IsSome(r.from) /\ dt <= r.from[1])
    /\ ~(IsSome(r.to) /\ dt >= r.to[1])

DateRange_contains(r, dt) ==
    /\ ~(IsSome(r.from) /\ dt < r.from[1])
    /\ ~(IsSome(r.to) /\ dt > r.to[1])

NoCriteria == [date_range |-> NoDateRange, project_filter |-> None]

FilterCriteria_is_set(c) == DateRange_is_set(c.date_range) \/ IsSome(c.project_filter)

FilterField_next(f) == IF f = "DateRange" THEN "Project" ELSE "DateRange"

\* SearchQuery::matches (case_sensitive is false everywhere in the program)
query_matches(text, target) ==
    text = <<>> \/ contains(to_lowercase(target), to_lowercase(text))

matches_criteria(session, c) ==
    /\ ~(DateRange_is_set(c.date_range)
            /\ ~DateRange_contains(c.date_range, session.datetime))
    /\ ~(/\ IsSome(c.project_filter)
         /\ c.project_filter[1] /= <<>>
         /\ ~contains(to_lowercase(session.project_name),
                      to_lowercase(c.project_filter[1])))

Indices(sessions) == [i \in 1..Len(sessions) |-> i - 1]

\* SearchEngine::search
search(sessions, text) ==
    IF text = <<>> THEN Indices(sessions)
    ELSE LET keep(i) ==
                 \/ query_matches(text, sessions[i + 1].project_name)
                 \/ query_matches(text, sessions[i + 1].latest_user_message)
         IN SelectSeq(Indices(sessions), keep)

\* SearchEngine::filter
filter(sessions, c) ==
    IF ~FilterCriteria_is_set(c) THEN Indices(sessions)
    ELSE LET keep(i) == matches_criteria(sessions[i + 1], c)
         IN SelectSeq(Indices(sessions), keep)

\* variant: a session is kept when the query or the criteria match
search_and_filter_either(sessions, text, c) ==
    LET keep(i) ==
            \/ \/ text = <<>>
               \/ query_matches(text, sessions[i + 1].project_name)
               \/ query_matches(text, sessions[i + 1].latest_user_message)
            \/ (~FilterCriteria_is_set(c) \/ matches_criteria(sessions[i + 1], c))
    IN SelectSeq(Indices(sessions), keep)

search_and_filter(sessions, text, c) ==
    LET keep(i) ==
            /\ \/ text = <<>>
               \/ query_matches(text, sessions[i + 1].project_name)
               \/ query_matches(text, sessions[i + 1].latest_user_message)
            /\ (~FilterCriteria_is_set(c) \/ matches_criteria(sessions[i + 1], c))
    IN SelectSeq(Indices(sessions), keep)

(***************************************************************************)
(* src/tea/model.rs                                                        *)
(***************************************************************************)
TreeItem_project(group) ==
    [kind |-> "Project", project_path |-> group.project_path,
     project_name |-> group.project_name, session |-> None,
     child_count |-> Len(group.sessions),
     latest_datetime |-> IF group.sessions = <<>> THEN now
                         ELSE group.sessions[1].datetime]

TreeItem_session(item) ==
    [kind |-> "Session", project_path |-> item.project_path,
     project_name |-> item.project_name, session |-> Some(item),
     child_count |-> 0, latest_datetime |-> item.datetime]

Model_new ==
    [sessions |-> <<>>, selected_index |-> 0, should_quit |-> FALSE,
     view_mode |-> "SessionList", previous_view_mode |-> "SessionList",
     current_session |-> None, search_text |-> <<>>,
     filter_criteria |-> NoCriteria, filtered_indices |-> <<>>,
     is_filtered |-> FALSE, filter_field |-> "DateRange",
     filter_project_input |-> <<>>, date_preset_index |-> 0,
     export_format |-> "Markdown", export_status |-> None,
     error_message |-> None, project_groups |-> <<>>,
     filtered_project_groups |-> <<>>, expanded_projects |-> {},
     expanded_projects_before_filter |-> None, tree_items |-> <<>>]

active_project_groups(m) ==
    IF m.is_filtered THEN m.filtered_project_groups ELSE m.project_groups

RECURSIVE TreeRows(_, _)
TreeRows(groups, expanded) ==
    IF groups = <<>> THEN <<>>
    ELSE LET g == Head(groups)
         IN <<TreeItem_project(g)>>
            \o (IF g.project_path \in expanded
                THEN [i \in 1..Len(g.sessions) |-> TreeItem_session(g.sessions[i])]
                ELSE <<>>)
            \o TreeRows(Tail(groups), expanded)

rebuild_tree_items(m) ==
    LET items == TreeRows(active_project_groups(m), m.expanded_projects)
    IN [m EXCEPT !.tree_items = items,
                 !.selected_index =
                     IF items /= <<>> /\ m.selected_index >= Len(items)
                     THEN Len(items) - 1 ELSE m.selected_index]

with_project_groups(m, groups) ==
    rebuild_tree_items(
        [m EXCEPT !.project_groups = groups,
                  !.sessions = Concat([i \in 1..Len(groups) |-> groups[i].sessions]),
                  !.filtered_project_groups = <<>>])

selected_tree_item(m) == Get(m.tree_items, m.selected_index)

\* variant: the expanded set is changed but the rows are not re-derived
toggle_project_stale(m, path) ==
    [m EXCEPT !.expanded_projects =
        IF path \in @ THEN @ \ {path} ELSE @ \cup {path}]

\* variant: the path is inserted and never removed
toggle_project_expand_only(m, path) ==
    rebuild_tree_items([m EXCEPT !.expanded_projects = @ \cup {path}])

toggle_project(m, path) ==
    rebuild_tree_items(
        [m EXCEPT !.expanded_projects =
            IF path \in @ THEN @ \ {path} ELSE @ \cup {path}])

expand_current_project(m) ==
    LET sel == selected_tree_item(m)
    IN IF /\ IsSome(sel)
          /\ sel[1].kind = "Project"
          /\ sel[1].project_path \notin m.expanded_projects
       THEN rebuild_tree_items(
                [m EXCEPT !.expanded_projects = @ \cup {sel[1].project_path}])
       ELSE m

collapse_current_project(m) ==
    LET sel == selected_tree_item(m)
    IN IF IsSome(sel) /\ sel[1].project_path \in m.expanded_projects
       THEN LET path == sel[1].project_path
                IsParent(t) == t.kind = "Project" /\ t.project_path = path
                parent == Position({i \in 1..Len(m.tree_items) : IsParent(m.tree_items[i])})
                moved == IF sel[1].kind = "Session" /\ IsSome(parent)
                         THEN [m EXCEPT !.selected_index = parent[1]]
                         ELSE m
            IN rebuild_tree_items([moved EXCEPT !.expanded_projects = @ \ {path}])
       ELSE m

expand_all(m) ==
    rebuild_tree_items(
        [m EXCEPT !.expanded_projects =
            @ \cup {m.project_groups[i].project_path : i \in 1..Len(m.project_groups)}])

collapse_all(m) ==
    LET sel == selected_tree_item(m)
        rebuilt == rebuild_tree_items([m EXCEPT !.expanded_projects = {}])
    IN IF IsSome(sel)
       THEN LET SamePath(t) == t.project_path = sel[1].project_path
                idx == Position({i \in 1..Len(rebuilt.tree_items) :
                                     SamePath(rebuilt.tree_items[i])})
            IN [rebuilt EXCEPT !.selected_index = IF IsSome(idx) THEN idx[1] ELSE 0]
       ELSE [rebuilt EXCEPT !.selected_index = 0]

move_up(m) ==
    IF m.selected_index > 0 THEN [m EXCEPT !.selected_index = @ - 1] ELSE m

\* usize::saturating_sub(1)
SatPred(n) == IF n > 0 THEN n - 1 ELSE 0

move_down(m) ==
    LET max_index == IF m.tree_items /= <<>> THEN SatPred(Len(m.tree_items))
                     ELSE IF m.is_filtered THEN SatPred(Len(m.filtered_indices))
                     ELSE SatPred(Len(m.sessions))
    IN IF m.selected_index < max_index
       THEN [m EXCEPT !.selected_index = @ + 1] ELSE m

selected_session(m) ==
    LET sel == selected_tree_item(m)
    IN IF IsSome(sel) /\ sel[1].kind = "Session" THEN sel[1].session
       ELSE IF m.is_filtered
            THEN LET actual == Get(m.filtered_indices, m.selected_index)
                 IN IF IsSome(actual) THEN Get(m.sessions, actual[1]) ELSE None
            ELSE Get(m.sessions, m.selected_index)

restore_expanded_projects_after_filter(m) ==
    IF IsSome(m.expanded_projects_before_filter)
    THEN [m EXCEPT !.expanded_projects = m.expanded_projects_before_filter[1],
                   !.expanded_projects_before_filter = None]
    ELSE m

clear_search_filter(m) ==
    rebuild_tree_items(
        restore_expanded_projects_after_filter(
            [m EXCEPT !.search_text = <<>>,
                      !.filter_criteria = NoCriteria,
                      !.filtered_indices = <<>>,
                      !.is_filtered = FALSE,
                      !.selected_index = 0,
                      !.filter_project_input = <<>>,
                      !.date_preset_index = 0,
                      !.filtered_project_groups = <<>>]))

\* variant: every project group is kept, also one without a matching session
rebuild_filtered_keep_empty(m) ==
    IF ~m.is_filtered THEN [m EXCEPT !.filtered_project_groups = <<>>]
    ELSE LET valid == SelectSeq(m.filtered_indices, LAMBDA i : i < Len(m.sessions))
             matched == [k \in 1..Len(valid) |-> m.sessions[valid[k] + 1]]
             grouped(path) == SelectSeq(matched, LAMBDA s : s.project_path = path)
         IN [m EXCEPT !.filtered_project_groups =
                [k \in 1..Len(m.project_groups) |->
                    ProjectGroup(m.project_groups[k].project_path,
                                 m.project_groups[k].project_name,
                                 grouped(m.project_groups[k].project_path))]]

rebuild_filtered_project_groups(m) ==
    IF ~m.is_filtered THEN [m EXCEPT !.filtered_project_groups = <<>>]
    ELSE LET valid == SelectSeq(m.filtered_indices, LAMBDA i : i < Len(m.sessions))
             matched == [k \in 1..Len(valid) |-> m.sessions[valid[k] + 1]]
             grouped(path) == SelectSeq(matched, LAMBDA s : s.project_path = path)
             hit == SelectSeq(m.project_groups,
                              LAMBDA g : grouped(g.project_path) /= <<>>)
         IN [m EXCEPT !.filtered_project_groups =
                [k \in 1..Len(hit) |->
                    ProjectGroup(hit[k].project_path, hit[k].project_name,
                                 grouped(hit[k].project_path))]]

\* variant: the checkpoint is overwritten by every application
sync_expanded_every_time(m, was_filtered) ==
    IF m.is_filtered
    THEN [m EXCEPT !.expanded_projects_before_filter = Some(m.expanded_projects),
                   !.expanded_projects =
                       {m.filtered_project_groups[i].project_path :
                            i \in 1..Len(m.filtered_project_groups)}]
    ELSE IF was_filtered THEN restore_expanded_projects_after_filter(m)
    ELSE m

sync_expanded_projects_for_filter(m, was_filtered) ==
    IF m.is_filtered
    THEN [m EXCEPT !.expanded_projects_before_filter =
                       IF ~was_filtered THEN Some(m.expanded_projects) ELSE @,
                   !.expanded_projects =
                       {m.filtered_project_groups[i].project_path :
                            i \in 1..Len(m.filtered_project_groups)}]
    ELSE IF was_filtered THEN restore_expanded_projects_after_filter(m)
    ELSE m

apply_search(m) ==
    LET found == [m EXCEPT
                    !.filtered_indices =
                        search_and_filter(m.sessions, m.search_text, m.filter_criteria),
                    !.is_filtered =
                        m.search_text /= <<>> \/ FilterCriteria_is_set(m.filter_criteria)]
        synced == sync_expanded_projects_for_filter(
                      rebuild_filtered_project_groups(found), m.is_filtered)
    IN [rebuild_tree_items(synced) EXCEPT !.selected_index = 0]

apply_filter(m) ==
    apply_search(
        [m EXCEPT !.filter_criteria.project_filter =
            IF m.filter_project_input = <<>> THEN None
            ELSE Some(m.filter_project_input)])

(***************************************************************************)
(* src/tea/message.rs, src/tea/update.rs                                   *)
(***************************************************************************)
Msg(t) == [type |-> t]

ExportStatus(tag, arg) == [tag |-> tag, arg |-> arg]
Selecting == ExportStatus("Selecting", "")
Exporting == ExportStatus("Exporting", "")

ExportFormat_next(f) == IF f = "Markdown" THEN "Json" ELSE "Markdown"

update_date_range_from_preset(m) ==
    [m EXCEPT !.filter_criteria.date_range =
        CASE m.date_preset_index = 0 -> NoDateRange
          [] m.date_preset_index = 1 -> DateRange_today
          [] m.date_preset_index = 2 -> DateRange_last_week
          [] m.date_preset_index = 3 -> DateRange_last_month
          [] OTHER -> NoDateRange]

\* variant: a Project row opens the detail view like a Session row
EnterDetail_arm_always_detail(m) ==
    IF IsSome(selected_tree_item(m)) \/ IsSome(selected_session(m))
    THEN [m EXCEPT !.view_mode = "SessionDetail"]
    ELSE m

EnterDetail_arm(m) ==
    LET sel == selected_tree_item(m)
    IN IF IsSome(sel)
       THEN IF sel[1].kind = "Project"
            THEN toggle_project(m, sel[1].project_path)
            ELSE [m EXCEPT !.view_mode = "SessionDetail"]
       ELSE IF IsSome(selected_session(m))
            THEN [m EXCEPT !.view_mode = "SessionDetail"]
            ELSE m

\* variant: the mode the help was entered from is not recorded
ShowHelp_arm_forgets(m) == [m EXCEPT !.view_mode = "Help"]

ShowHelp_arm(m) ==
    [m EXCEPT !.previous_view_mode = m.view_mode, !.view_mode = "Help"]

ConfirmExport_arm(m) == [m EXCEPT !.export_status = Some(Exporting)]

ExportCompleted_arm(m, path) ==
    [m EXCEPT !.export_status = Some(ExportStatus("Success", path))]

\* variant: a failed export also ends the program
ExportFailed_arm_quits(m, error) ==
    [m EXCEPT !.export_status = Some(ExportStatus("Error", error)),
              !.should_quit = TRUE]

ExportFailed_arm(m, error) ==
    [m EXCEPT !.export_status = Some(ExportStatus("Error", error))]

SelectSession_arm(m, index) ==
    IF index < Len(m.sessions) THEN [m EXCEPT !.selected_index = index] ELSE m

update(m, msg) ==
    CASE msg.type = "Initialized" -> m
      [] msg.type = "SelectSession" -> SelectSession_arm(m, msg.index)
      [] msg.type = "MoveUp" -> move_up(m)
      [] msg.type = "MoveDown" -> move_down(m)
      [] msg.type = "EnterDetail" -> EnterDetail_arm(m)
      [] msg.type = "BackToList" ->
            [m EXCEPT !.view_mode = "SessionList", !.current_session = None]
      [] msg.type \in {"ScrollUp", "ScrollDown", "CopySelectedMessage",
                       "CopySelectedMessageWithMeta", "None"} -> m
      [] msg.type = "SessionLoaded" -> [m EXCEPT !.current_session = Some(msg.session)]
      [] msg.type = "SessionLoadFailed" ->
            [m EXCEPT !.view_mode = "SessionList", !.current_session = None]
      [] msg.type = "Quit" -> [m EXCEPT !.should_quit = TRUE]
      [] msg.type = "StartSearch" -> [m EXCEPT !.view_mode = "Search"]
      [] msg.type = "CancelSearch" ->
            apply_search([m EXCEPT !.view_mode = "SessionList", !.search_text = <<>>])
      [] msg.type = "SearchInput" ->
            apply_search([m EXCEPT !.search_text = Append(@, msg.c)])
      [] msg.type = "SearchBackspace" ->
            apply_search([m EXCEPT !.search_text = Pop(@)])
      [] msg.type = "ConfirmSearch" ->
            apply_search([m EXCEPT !.view_mode = "SessionList"])
      [] msg.type = "StartFilter" ->
            [m EXCEPT !.view_mode = "Filter",
                      !.filter_project_input =
                          IF IsSome(m.filter_criteria.project_filter)
                          THEN m.filter_criteria.project_filter[1] ELSE <<>>]
      [] msg.type = "CancelFilter" -> [m EXCEPT !.view_mode = "SessionList"]
      [] msg.type = "ApplyFilter" ->
            apply_filter([m EXCEPT !.view_mode = "SessionList"])
      [] msg.type = "ClearFilter" ->
            IF m.is_filtered \/ m.search_text /= <<>>
            THEN clear_search_filter(m)
            ELSE [m EXCEPT !.should_quit = TRUE]
      [] msg.type = "FilterNextField" ->
            [m EXCEPT !.filter_field = FilterField_next(@)]
      [] msg.type = "FilterDatePresetNext" ->
            IF m.date_preset_index < 3
            THEN update_date_range_from_preset([m EXCEPT !.date_preset_index = @ + 1])
            ELSE m
      [] msg.type = "FilterDatePresetPrev" ->
            IF m.date_preset_index > 0
            THEN update_date_range_from_preset([m EXCEPT !.date_preset_index = @ - 1])
            ELSE m
      [] msg.type = "FilterProjectInput" ->
            [m EXCEPT !.filter_project_input = Append(@, msg.c)]
      [] msg.type = "FilterProjectBackspace" ->
            [m EXCEPT !.filter_project_input = Pop(@)]
      [] msg.type = "ShowHelp" -> ShowHelp_arm(m)
      [] msg.type = "CloseHelp" -> [m EXCEPT !.view_mode = m.previous_view_mode]
      [] msg.type = "StartExport" ->
            [m EXCEPT !.previous_view_mode = m.view_mode, !.view_mode = "Export",
                      !.export_status = Some(Selecting)]
      [] msg.type = "SelectExportFormat" -> [m EXCEPT !.export_format = msg.format]
      [] msg.type = "ToggleExportFormat" ->
            [m EXCEPT !.export_format = ExportFormat_next(@)]
      [] msg.type = "ConfirmExport" -> ConfirmExport_arm(m)
      [] msg.type = "CancelExport" ->
            [m EXCEPT !.view_mode = m.previous_view_mode, !.export_status = None]
      [] msg.type = "ExportCompleted" -> ExportCompleted_arm(m, msg.path)
      [] msg.type = "ExportFailed" -> ExportFailed_arm(m, msg.error)
      [] msg.type = "ShowError" -> [m EXCEPT !.error_message = Some(msg.error)]
      [] msg.type = "ClearError" -> [m EXCEPT !.error_message = None]
      [] msg.type = "ToggleProject" -> toggle_project(m, msg.project_path)
      [] msg.type = "ExpandCurrentProject" -> expand_current_project(m)
      [] msg.type = "CollapseCurrentProject" -> collapse_current_project(m)
      [] msg.type = "ExpandAll" -> expand_all(m)
      [] msg.type = "CollapseAll" -> collapse_all(m)
      \* ToggleCurrency / ToggleTheme touch only display fields
      [] OTHER -> m

(***************************************************************************)
(* src/tui/event.rs: key codes to messages                                 *)
(***************************************************************************)
CharKeys == {"q", "k", "j", "l", "h", "E", "C", "/", "f", "e", "u", "?", "y", "Y", "c"}
                \cup Chars
Keys == CharKeys \cup {"Esc", "Enter", "Tab", "Backspace", "Up", "Down", "Left",
                       "Right", "Ctrl+c", "Ctrl+t"}

session_list_key(key) ==
    CASE key = "q" -> Msg("Quit")
      [] key = "Esc" -> Msg("ClearFilter")
      [] key \in {"k", "Up"} -> Msg("MoveUp")
      [] key \in {"j", "Down"} -> Msg("MoveDown")
      [] key = "Enter" -> Msg("EnterDetail")
      [] key \in {"l", "Right"} -> Msg("ExpandCurrentProject")
      [] key \in {"h", "Left"} -> Msg("CollapseCurrentProject")
      [] key = "E" -> Msg("ExpandAll")
      [] key = "C" -> Msg("CollapseAll")
      [] key = "/" -> Msg("StartSearch")
      [] key = "f" -> Msg("StartFilter")
      [] key = "e" -> Msg("StartExport")
      [] key = "u" -> Msg("ToggleCurrency")
      [] key = "?" -> Msg("ShowHelp")
      [] OTHER -> Msg("None")

\* the step of a scroll key is 1..8 depending on key-repeat timing; the
\* reducer arms for scrolling act on the detail cursor only
session_detail_key(key) ==
    CASE key \in {"Esc", "q"} -> Msg("BackToList")
      [] key \in {"k", "Up"} -> [type |-> "ScrollUp", amount |-> 1]
      [] key \in {"j", "Down"} -> [type |-> "ScrollDown", amount |-> 1]
      [] key = "y" -> Msg("CopySelectedMessage")
      [] key = "Y" -> Msg("CopySelectedMessageWithMeta")
      [] key = "e" -> Msg("StartExport")
      [] key = "u" -> Msg("ToggleCurrency")
      [] key = "?" -> Msg("ShowHelp")
      [] OTHER -> Msg("None")

search_mode_key(key) ==
    CASE key = "Esc" -> Msg("CancelSearch")
      [] key = "Enter" -> Msg("ConfirmSearch")
      [] key = "Backspace" -> Msg("SearchBackspace")
      [] key \in CharKeys -> [type |-> "SearchInput", c |-> key]
      [] OTHER -> Msg("None")

filter_mode_key(key) ==
    CASE key = "Tab" -> Msg("FilterNextField")
      [] key \in {"j", "Down"} -> Msg("FilterDatePresetNext")
      [] key \in {"k", "Up"} -> Msg("FilterDatePresetPrev")
      [] key = "Enter" -> Msg("ApplyFilter")
      [] key = "Esc" -> Msg("CancelFilter")
      [] key = "c" -> Msg("ClearFilter")
      [] key = "Backspace" -> Msg("FilterProjectBackspace")
      [] key \in CharKeys -> [type |-> "FilterProjectInput", c |-> key]
      [] OTHER -> Msg("None")

help_mode_key(key) ==
    IF key \in {"Esc", "q", "?"} THEN Msg("CloseHelp") ELSE Msg("None")

export_mode_key(key, export_status) ==
    LET is_exportable == export_status = Some(Selecting)
    IN CASE key \in {"Esc", "q"} -> Msg("CancelExport")
         [] key \in {"Tab", "j", "k", "Left", "Right"} /\ is_exportable ->
                Msg("ToggleExportFormat")
         [] key = "Enter" /\ is_exportable -> Msg("ConfirmExport")
         [] OTHER -> Msg("None")

\* variant: the export dialog sees its keys before Ctrl+C is tested
key_to_message_dialog_first(key, view_mode, export_status) ==
    IF view_mode = "Export" THEN export_mode_key(key, export_status)
    ELSE CASE key = "Ctrl+c" -> Msg("Quit")
           [] key = "Ctrl+t" -> Msg("ToggleTheme")
           [] OTHER ->
                 CASE view_mode = "SessionList" -> session_list_key(key)
                   [] view_mode = "SessionDetail" -> session_detail_key(key)
                   [] view_mode = "Search" -> search_mode_key(key)
                   [] view_mode = "Filter" -> filter_mode_key(key)
                   [] view_mode = "Help" -> help_mode_key(key)

key_to_message(key, view_mode, export_status) ==
    CASE key = "Ctrl+c" -> Msg("Quit")
      [] key = "Ctrl+t" -> Msg("ToggleTheme")
      [] OTHER ->
            CASE view_mode = "SessionList" -> session_list_key(key)
              [] view_mode = "SessionDetail" -> session_detail_key(key)
              [] view_mode = "Search" -> search_mode_key(key)
              [] view_mode = "Filter" -> filter_mode_key(key)
              [] view_mode = "Help" -> help_mode_key(key)
              [] view_mode = "Export" -> export_mode_key(key, export_status)

(***************************************************************************)
(* src/tui/app.rs: effects performed by the host                           *)
(***************************************************************************)
\* what the host finds on disk when it opens a transcript file
FileStates == {"ok", "missing"}
\* what the worker finds when it writes into the export directory
DirStates == {"ok", "missing", "readonly", "write_error"}

Session(item) == [id |-> item.session_id, project |-> item.project_path]

\* the list item load_current_session reads the transcript of
load_target(m) ==
    LET sel == selected_tree_item(m)
    IN IF IsSome(sel) THEN sel[1].session ELSE selected_session(m)

\* variant: a transcript that cannot be read produces no message
load_current_session_silent(m, file) ==
    LET selected == load_target(m)
    IN IF selected = None \/ file /= "ok" THEN None
       ELSE Some([type |-> "SessionLoaded", session |-> Session(selected[1])])

load_current_session(m, file) ==
    LET selected == load_target(m)
    IN IF selected = None THEN None
       ELSE IF file = "ok"
            THEN Some([type |-> "SessionLoaded", session |-> Session(selected[1])])
            ELSE Some([type |-> "SessionLoadFailed", error |-> <<file>>])

extension(format) == IF format = "Markdown" THEN "md" ELSE "json"

generate_filename(session, format) == <<session.id, extension(format)>>

\* Ok(path) or Err(ExportError(reason))
write_to_file(filename, dir) ==
    IF dir = "ok" THEN [ok |-> TRUE, value |-> filename]
    ELSE [ok |-> FALSE, value |-> <<dir>>]

\* the message the spawned thread sends when it is done
export_result(job, dir) ==
    LET r == write_to_file(generate_filename(job.session, job.format), dir)
    IN IF r.ok THEN [type |-> "ExportCompleted", path |-> r.value]
       ELSE [type |-> "ExportFailed", error |-> r.value]

\* the threads running after App::start_export (a bag: threads have no order)
start_export(m, running) ==
    IF m.current_session = None THEN running
    ELSE running (+) SetToBag({[session |-> m.current_session[1],
                                format |-> m.export_format]})

\* variant: the export sub-state is not looked at
ConfirmExport_allowed_any_status(m) == IsSome(m.current_session)

ConfirmExport_allowed(m) ==
    IsSome(m.current_session) /\ m.export_status = Some(Selecting)

(***************************************************************************)
(* src/tui/app.rs: App::run, one loop iteration in two positions           *)
(*   "drain": while let Ok(msg) = async_rx.try_recv(), then the draw       *)
(*   "poll" : event_handler.poll and the dispatch on its message           *)
(*   "done" : the loop was left through should_quit                        *)
(* load_log holds the ids of the sessions load_current_session read from   *)
(* disk during the latest dispatch.                                        *)
(***************************************************************************)
Loaded(indexes) ==
    /\ now = 0
    /\ \E groups \in indexes :
          model = update(with_project_groups(Model_new, groups), Msg("Initialized"))
    /\ pc = "drain"
    /\ async_chan = <<>>
    /\ workers = EmptyBag
    /\ load_log = <<>>
    /\ input = <<>>
    /\ result = <<>>

Init == Loaded(ProjectIndexes)

\* lines 343-347: one turn of the try_recv loop
DrainOne ==
    /\ pc = "drain"
    /\ async_chan /= <<>>
    /\ model' = update(model, Head(async_chan))
    /\ async_chan' = Tail(async_chan)
    /\ UNCHANGED <<pc, workers, load_log, now, input, result>>

\* variant: the frame is drawn without waiting for try_recv to fail
Render_before_drain ==
    /\ pc = "drain"
    /\ pc' = "poll"
    /\ UNCHANGED <<model, async_chan, workers, load_log, now, input, result>>

\* try_recv finds the channel empty; the frame is drawn
Render ==
    /\ pc = "drain"
    /\ async_chan = <<>>
    /\ pc' = "poll"
    /\ UNCHANGED <<model, async_chan, workers, load_log, now, input, result>>

\* variant: the thread returns early on a failed write, before the send
WorkerFinish_silent_on_error ==
    /\ pc /= "done"
    /\ \E job \in BagToSet(workers), dir \in DirStates :
          /\ async_chan' = IF dir = "ok" THEN Append(async_chan, export_result(job, dir))
                           ELSE async_chan
          /\ workers' = workers (-) SetToBag({job})
    /\ UNCHANGED <<model, pc, load_log, now, input, result>>

\* the spawned thread of start_export: write the file, send the result
WorkerFinish ==
    /\ pc /= "done"
    /\ \E job \in BagToSet(workers), dir \in DirStates :
          /\ async_chan' = Append(async_chan, export_result(job, dir))
          /\ workers' = workers (-) SetToBag({job})
    /\ UNCHANGED <<model, pc, load_log, now, input, result>>

\* some key press is translated to msg in the current view mode
Polled(msg) ==
    /\ pc = "poll"
    /\ \E key \in Keys :
          key_to_message(key, model.view_mode, model.export_status) = msg

\* lines 410-413: any key clears the error banner first
ClearedError(m, msg) ==
    IF msg.type /= "None" /\ IsSome(m.error_message)
    THEN update(m, Msg("ClearError")) ELSE m

\* end of the iteration: the quit test of lines 476-480
Finish(m, loads, running) ==
    /\ model' = m
    /\ workers' = running
    /\ load_log' = loads
    /\ pc' = IF m.should_quit THEN "done" ELSE "drain"
    /\ UNCHANGED <<async_chan, now, input, result>>

\* the final else arm: the message goes to the reducer as it is
Dispatch(msg) ==
    /\ Polled(msg)
    /\ Finish(update(ClearedError(model, msg), msg), <<>>, workers)

\* lines 415-431
KeyEnterDetail ==
    LET msg == Msg("EnterDetail")
        m0 == ClearedError(model, msg)
        sel == selected_tree_item(m0)
        is_session_node == IsSome(sel) /\ sel[1].kind = "Session"
        m1 == update(m0, msg)
    IN /\ Polled(msg)
       /\ IF is_session_node
          THEN \E file \in FileStates :
                  LET load_msg == load_current_session(m1, file)
                  IN IF IsSome(load_msg)
                     THEN Finish(update(m1, load_msg[1]),
                                 <<load_target(m1)[1].session_id>>, workers)
                     ELSE Finish(m1, <<>>, workers)
          ELSE Finish(m1, <<>>, workers)

\* lines 432-442
ConfirmExport_host(m, running) ==
    IF ConfirmExport_allowed(m)
    THEN LET m1 == update(m, Msg("ConfirmExport"))
         IN [model |-> m1, workers |-> start_export(m1, running)]
    ELSE [model |-> m, workers |-> running]

KeyConfirmExport ==
    LET msg == Msg("ConfirmExport")
        r == ConfirmExport_host(ClearedError(model, msg), workers)
    IN /\ Polled(msg)
       /\ BagCardinality(workers) < MaxWorkers
       /\ Finish(r.model, <<>>, r.workers)

\* lines 443-463
KeyStartExport ==
    LET msg == Msg("StartExport")
        m0 == ClearedError(model, msg)
    IN /\ Polled(msg)
       /\ IF m0.current_session = None
          THEN \E file \in FileStates :
                  LET load_msg == load_current_session(m0, file)
                  IN IF IsSome(load_msg)
                     THEN LET m1 == update(m0, load_msg[1])
                              sid == load_target(m0)[1].session_id
                          IN IF load_msg[1].type = "SessionLoadFailed"
                             THEN Finish(update(m1, [type |-> "ShowError",
                                                     error |-> load_msg[1].error]),
                                         <<sid>>, workers)
                             ELSE Finish(update(m1, msg), <<sid>>, workers)
                     ELSE Finish(m0, <<>>, workers)
          ELSE Finish(update(m0, msg), <<>>, workers)

\* lines 464-471: the clipboard copy may fail
Copy(msg) ==
    /\ Polled(msg)
    /\ \E copied \in BOOLEAN :
          LET m0 == ClearedError(model, msg)
          IN Finish(IF copied THEN m0
                    ELSE update(m0, [type |-> "ShowError", error |-> <<"copy">>]),
                    <<>>, workers)

KeyCopySelectedMessage ==
    /\ pc = "poll"
    /\ Copy(Msg("CopySelectedMessage"))
KeyCopySelectedMessageWithMeta ==
    /\ pc = "poll"
    /\ Copy(Msg("CopySelectedMessageWithMeta"))

\* poll returns Message::None when the timeout passes or the key is unbound
PollNone ==
    /\ pc = "poll"
    /\ Finish(update(model, Msg("None")), <<>>, workers)

KeyQuit ==
    /\ pc = "poll"
    /\ Dispatch(Msg("Quit"))
KeyToggleTheme ==
    /\ pc = "poll"
    /\ Dispatch(Msg("ToggleTheme"))
KeyToggleCurrency ==
    /\ pc = "poll"
    /\ Dispatch(Msg("ToggleCurrency"))
KeyClearFilter ==
    /\ pc = "poll"
    /\ Dispatch(Msg("ClearFilter"))
KeyMoveUp ==
    /\ pc = "poll"
    /\ Dispatch(Msg("MoveUp"))
KeyMoveDown ==
    /\ pc = "poll"
    /\ Dispatch(Msg("MoveDown"))
KeyExpandCurrentProject ==
    /\ pc = "poll"
    /\ Dispatch(Msg("ExpandCurrentProject"))
KeyCollapseCurrentProject ==
    /\ pc = "poll"
    /\ Dispatch(Msg("CollapseCurrentProject"))
KeyExpandAll ==
    /\ pc = "poll"
    /\ Dispatch(Msg("ExpandAll"))
KeyCollapseAll ==
    /\ pc = "poll"
    /\ Dispatch(Msg("CollapseAll"))
KeyStartSearch ==
    /\ pc = "poll"
    /\ Dispatch(Msg("StartSearch"))
KeyStartFilter ==
    /\ pc = "poll"
    /\ Dispatch(Msg("StartFilter"))
KeyShowHelp ==
    /\ pc = "poll"
    /\ Dispatch(Msg("ShowHelp"))
KeyCloseHelp ==
    /\ pc = "poll"
    /\ Dispatch(Msg("CloseHelp"))
KeyBackToList ==
    /\ pc = "poll"
    /\ Dispatch(Msg("BackToList"))
KeyScrollUp ==
    /\ pc = "poll"
    /\ Dispatch([type |-> "ScrollUp", amount |-> 1])
KeyScrollDown ==
    /\ pc = "poll"
    /\ Dispatch([type |-> "ScrollDown", amount |-> 1])
KeyCancelSearch ==
    /\ pc = "poll"
    /\ Dispatch(Msg("CancelSearch"))
KeyConfirmSearch ==
    /\ pc = "poll"
    /\ Dispatch(Msg("ConfirmSearch"))
KeySearchBackspace ==
    /\ pc = "poll"
    /\ Dispatch(Msg("SearchBackspace"))
KeySearchInput ==
    \E c \in Chars :
        /\ pc = "poll"
        /\ Len(model.search_text) < MaxTextLen
        /\ Dispatch([type |-> "SearchInput", c |-> c])
KeyFilterNextField ==
    /\ pc = "poll"
    /\ Dispatch(Msg("FilterNextField"))
KeyFilterDatePresetNext ==
    /\ pc = "poll"
    /\ Dispatch(Msg("FilterDatePresetNext"))
KeyFilterDatePresetPrev ==
    /\ pc = "poll"
    /\ Dispatch(Msg("FilterDatePresetPrev"))
KeyApplyFilter ==
    /\ pc = "poll"
    /\ Dispatch(Msg("ApplyFilter"))
KeyCancelFilter ==
    /\ pc = "poll"
    /\ Dispatch(Msg("CancelFilter"))
KeyFilterProjectBackspace ==
    /\ pc = "poll"
    /\ Dispatch(Msg("FilterProjectBackspace"))
KeyFilterProjectInput ==
    \E c \in Chars :
        /\ pc = "poll"
        /\ Len(model.filter_project_input) < MaxTextLen
        /\ Dispatch([type |-> "FilterProjectInput", c |-> c])
KeyToggleExportFormat ==
    /\ pc = "poll"
    /\ Dispatch(Msg("ToggleExportFormat"))
KeyCancelExport ==
    /\ pc = "poll"
    /\ Dispatch(Msg("CancelExport"))

\* the export worker and the receive side of its channel
HostStep == DrainOne \/ Render \/ WorkerFinish \/ PollNone

\* keys of the session list, the detail view, the help and export dialogs
BrowseKey ==
    \/ KeyEnterDetail \/ KeyConfirmExport \/ KeyStartExport
    \/ KeyCopySelectedMessage \/ KeyCopySelectedMessageWithMeta
    \/ KeyQuit \/ KeyToggleTheme \/ KeyToggleCurrency
    \/ KeyMoveUp \/ KeyMoveDown
    \/ KeyExpandCurrentProject \/ KeyCollapseCurrentProject
    \/ KeyExpandAll \/ KeyCollapseAll
    \/ KeyShowHelp \/ KeyCloseHelp
    \/ KeyBackToList \/ KeyScrollUp \/ KeyScrollDown
    \/ KeyToggleExportFormat \/ KeyCancelExport

\* keys of the search bar and the filter panel
SearchKey ==
    \/ KeyClearFilter \/ KeyStartSearch \/ KeyStartFilter
    \/ KeyCancelSearch \/ KeyConfirmSearch \/ KeySearchBackspace \/ KeySearchInput
    \/ KeyFilterNextField \/ KeyFilterDatePresetNext \/ KeyFilterDatePresetPrev
    \/ KeyApplyFilter \/ KeyCancelFilter
    \/ KeyFilterProjectBackspace \/ KeyFilterProjectInput

Next == HostStep \/ BrowseKey \/ SearchKey

Spec == Init /\ [][Next]_vars

NextBrowse == HostStep \/ BrowseKey

InitBrowse == Loaded({<<>>, IndexOneSession})

SpecBrowse == InitBrowse /\ [][NextBrowse]_vars

(***************************************************************************)
(* The reducer on its own: update applied to any message of the tree,      *)
(* search and filter alphabet, in any order.  The remaining messages       *)
(* (help, export, error, quit, session load, FilterNextField) write none   *)
(* of the fields the tree is derived from.                                 *)
(***************************************************************************)
Apply(msg) ==
    /\ model' = update(model, msg)
    /\ UNCHANGED <<pc, async_chan, workers, load_log, now, input, result>>

UpdMoveUp ==
    /\ pc = "drain"
    /\ Apply(Msg("MoveUp"))
UpdMoveDown ==
    /\ pc = "drain"
    /\ Apply(Msg("MoveDown"))
UpdEnterDetail ==
    /\ pc = "drain"
    /\ Apply(Msg("EnterDetail"))
UpdBackToList ==
    /\ pc = "drain"
    /\ Apply(Msg("BackToList"))
UpdStartSearch ==
    /\ pc = "drain"
    /\ Apply(Msg("StartSearch"))
UpdCancelSearch ==
    /\ pc = "drain"
    /\ Apply(Msg("CancelSearch"))
UpdSearchBackspace ==
    /\ pc = "drain"
    /\ Apply(Msg("SearchBackspace"))
UpdConfirmSearch ==
    /\ pc = "drain"
    /\ Apply(Msg("ConfirmSearch"))
UpdStartFilter ==
    /\ pc = "drain"
    /\ Apply(Msg("StartFilter"))
UpdCancelFilter ==
    /\ pc = "drain"
    /\ Apply(Msg("CancelFilter"))
UpdApplyFilter ==
    /\ pc = "drain"
    /\ Apply(Msg("ApplyFilter"))
UpdClearFilter ==
    /\ pc = "drain"
    /\ Apply(Msg("ClearFilter"))
UpdFilterDatePresetNext ==
    /\ pc = "drain"
    /\ Apply(Msg("FilterDatePresetNext"))
UpdFilterDatePresetPrev ==
    /\ pc = "drain"
    /\ Apply(Msg("FilterDatePresetPrev"))
UpdFilterProjectBackspace ==
    /\ pc = "drain"
    /\ Apply(Msg("FilterProjectBackspace"))
UpdExpandCurrentProject ==
    /\ pc = "drain"
    /\ Apply(Msg("ExpandCurrentProject"))
UpdCollapseCurrentProject ==
    /\ pc = "drain"
    /\ Apply(Msg("CollapseCurrentProject"))
UpdExpandAll ==
    /\ pc = "drain"
    /\ Apply(Msg("ExpandAll"))
UpdCollapseAll ==
    /\ pc = "drain"
    /\ Apply(Msg("CollapseAll"))
UpdInitialized ==
    /\ pc = "drain"
    /\ Apply(Msg("Initialized"))
UpdSelectSession ==
    \E index \in 0..Len(model.sessions) :
        /\ pc = "drain"
        /\ Apply([type |-> "SelectSession", index |-> index])
UpdSearchInput ==
    \E c \in Chars :
        /\ pc = "drain"
        /\ Len(model.search_text) < MaxTextLen
        /\ Apply([type |-> "SearchInput", c |-> c])
UpdFilterProjectInput ==
    \E c \in Chars :
        /\ pc = "drain"
        /\ Len(model.filter_project_input) < MaxTextLen
        /\ Apply([type |-> "FilterProjectInput", c |-> c])
UpdToggleProject ==
    \E i \in 1..Len(model.project_groups) :
        /\ pc = "drain"
        /\ Apply([type |-> "ToggleProject",
                  project_path |-> model.project_groups[i].project_path])

NextUpdate ==
    \/ UpdInitialized \/ UpdSelectSession \/ UpdMoveUp \/ UpdMoveDown
    \/ UpdEnterDetail \/ UpdBackToList
    \/ UpdStartSearch \/ UpdCancelSearch \/ UpdSearchInput \/ UpdSearchBackspace
    \/ UpdConfirmSearch
    \/ UpdStartFilter \/ UpdCancelFilter \/ UpdApplyFilter \/ UpdClearFilter
    \/ UpdFilterDatePresetNext \/ UpdFilterDatePresetPrev
    \/ UpdFilterProjectInput \/ UpdFilterProjectBackspace
    \/ UpdToggleProject \/ UpdExpandCurrentProject \/ UpdCollapseCurrentProject
    \/ UpdExpandAll \/ UpdCollapseAll

SpecUpdate == Init /\ [][NextUpdate]_vars

(***************************************************************************)
(* Fairness of the main loop: the loop keeps iterating (poll returns after *)
(* its timeout at the latest, try_recv never blocks) and a spawned thread  *)
(* runs to its send.                                                       *)
(***************************************************************************)
PollStep == PollNone \/ BrowseKey

LiveBrowse ==
    /\ SpecBrowse
    /\ WF_vars(DrainOne)
    /\ WF_vars(Render)
    /\ WF_vars(WorkerFinish)
    /\ WF_vars(PollStep)

(***************************************************************************)
(* The reducer in the filter dialog while the system clock advances        *)
(***************************************************************************)
\* Utc::now() returns a later day
Tick ==
    /\ pc = "drain"
    /\ now < MaxClock
    /\ now' = now + 1
    /\ UNCHANGED <<model, pc, async_chan, workers, load_log, input, result>>

NextClock ==
    \/ Tick
    \/ UpdStartFilter
    \/ UpdFilterDatePresetNext
    \/ UpdFilterDatePresetPrev
    \/ UpdApplyFilter
    \/ UpdCancelFilter
    \/ UpdClearFilter
    \/ UpdToggleProject

SpecClock == Init /\ [][NextClock]_vars

(***************************************************************************)
(* src/tui/app.rs: App::load_sessions and the readers of src/data          *)
(*                                                                         *)
(* input is the part of the home directory load_sessions reads:            *)
(*   claude_dir, codex_dir : does the base directory exist                 *)
(*   claude_history, codex_history : None (no file) or the file's lines    *)
(*   codex_sessions : the transcript files under the sessions directory    *)
(* A line is one that parses and carries a session id ("entry"), one that  *)
(* parses without a session id, or one that is not JSON; a history file has *)
(* up to MaxLines entries and at most one other line, anywhere among them. *)
(* The display text of the i-th line names the line.  Timestamps are milliseconds since the *)
(* Unix epoch (Claude) and seconds (Codex).  app.rs reads the fields of an *)
(* entry as plain values.                                                  *)
(***************************************************************************)
\* the largest count of milliseconds a DateTime<Utc> holds, in the scale of
\* the timestamps drawn here (Utc.timestamp_millis_opt is None beyond it)
ChronoMax == 1000

DisplayOf(i) ==
    << CASE i = 1 -> "1" [] i = 2 -> "2" [] i = 3 -> "3" [] i = 4 -> "4" [] OTHER -> "n" >>

ClaudeDrafts ==
    {[kind |-> "entry", session_id |-> id, project |-> p, timestamp |-> 1000 * t] :
        id \in {"s1", "s2"}, p \in {"/w/a", "/w/b"}, t \in 0..MaxTimestamp}

CodexDrafts ==
    {[kind |-> "entry", session_id |-> id, ts |-> t] :
        id \in {"s1", "c1"}, t \in 0..MaxTimestamp}

SkippedLines == {[kind |-> "malformed"], [kind |-> "no_session_id"]}

\* a sequence of drafts, alone and with one skipped line put after the
\* k-th draft
WithSkippedLine(d) ==
    {d} \cup {SubSeq(d, 1, k) \o <<b>> \o SubSeq(d, k + 1, Len(d)) :
                 k \in 0..Len(d), b \in SkippedLines}

ClaudeLine(d, i) ==
    IF d.kind = "entry"
    THEN [kind |-> "entry", session_id |-> d.session_id, project |-> d.project,
          timestamp |-> d.timestamp, display |-> DisplayOf(i)]
    ELSE d

CodexLine(d, i) ==
    IF d.kind = "entry"
    THEN [kind |-> "entry", session_id |-> d.session_id, ts |-> d.ts,
          text |-> DisplayOf(i)]
    ELSE d

ClaudeFile(d) == [i \in 1..Len(d) |-> ClaudeLine(d[i], i)]

CodexFile(d) == [i \in 1..Len(d) |-> CodexLine(d[i], i)]

\* a transcript file: its session_meta line is found, its first line is not
\* JSON, or the file cannot be opened
SessionFileKinds ==
    {[kind |-> "meta", session_id |-> id, cwd |-> c] :
        id \in {"s1", "c1"}, c \in {None, Some("/w/a")}}
      \cup {[kind |-> "unparseable"], [kind |-> "unreadable"]}

SessionDirs(max) == UNION {[1..n -> SessionFileKinds] : n \in 0..max}

Disk(claude_dir, claude_history, codex_dir, codex_sessions, codex_history) ==
    [claude_dir |-> claude_dir, claude_history |-> claude_history,
     codex_dir |-> codex_dir, codex_sessions |-> codex_sessions,
     codex_history |-> codex_history]

OneClaudeLine ==
    << [kind |-> "entry", session_id |-> "s1", project |-> "/w/a", timestamp |-> 1000,
        display |-> DisplayOf(1)] >>

OneSessionDir == << [kind |-> "meta", session_id |-> "c1", cwd |-> Some("/w/a")] >>

\* Utc.timestamp_millis_opt(ms).single().unwrap_or(UNIX_EPOCH)
datetime_from_millis(timestamp_ms) ==
    IF timestamp_ms >= 0 - ChronoMax /\ timestamp_ms <= ChronoMax
    THEN timestamp_ms ELSE 0

HistoryEntry_datetime(entry) == datetime_from_millis(entry.timestamp)

RECURSIVE DescSeq(_)
\* the numbers of a finite set, largest first
DescSeq(S) ==
    IF S = {} THEN <<>>
    ELSE LET m == CHOOSE x \in S : \A y \in S : y <= x
         IN <<m>> \o DescSeq(S \ {m})

\* variant: a line that is not JSON ends the read with its error
HistoryReader_read_all_strict(lines) ==
    IF \E i \in 1..Len(lines) : lines[i].kind = "malformed"
    THEN [ok |-> FALSE, value |-> <<>>]
    ELSE LET entries == SelectSeq(lines, LAMBDA l : l.kind = "entry")
             keys == DescSeq({HistoryEntry_datetime(entries[i]) : i \in 1..Len(entries)})
         IN [ok |-> TRUE,
             value |-> Concat([k \in 1..Len(keys) |->
                          SelectSeq(entries, LAMBDA e : HistoryEntry_datetime(e) = keys[k])])]

\* the lines that parse and are valid, stably sorted by datetime() descending
HistoryReader_read_all(lines) ==
    LET entries == SelectSeq(lines, LAMBDA l : l.kind = "entry")
        keys == DescSeq({HistoryEntry_datetime(entries[i]) : i \in 1..Len(entries)})
    IN [ok |-> TRUE,
        value |-> Concat([k \in 1..Len(keys) |->
                     SelectSeq(entries, LAMBDA e : HistoryEntry_datetime(e) = keys[k])])]

CodexHistoryReader_read_all(lines) ==
    LET entries == SelectSeq(lines, LAMBDA l : l.kind = "entry")
        keys == DescSeq({entries[i].ts : i \in 1..Len(entries)})
    IN [ok |-> TRUE,
        value |-> Concat([k \in 1..Len(keys) |->
                     SelectSeq(entries, LAMBDA e : e.ts = keys[k])])]

\* Err when a file cannot be opened; otherwise session id -> cwd of the
\* last file naming that id (a file without session_meta adds nothing)
build_session_index(files) ==
    IF \E i \in 1..Len(files) : files[i].kind = "unreadable"
    THEN [ok |-> FALSE, value |-> <<>>]
    ELSE LET metas == SelectSeq(files, LAMBDA f : f.kind = "meta")
             ids == {metas[i].session_id : i \in 1..Len(metas)}
             last(id) == CHOOSE i \in 1..Len(metas) :
                            /\ metas[i].session_id = id
                            /\ \A j \in (i + 1)..Len(metas) : metas[j].session_id /= id
         IN [ok |-> TRUE, value |-> [id \in ids |-> metas[last(id)].cwd]]

HistoryItem(session_id, project_path, display, timestamp, source) ==
    [session_id |-> session_id, project_path |-> project_path, display |-> display,
     timestamp |-> timestamp, source |-> source]

\* lines 86-94
ClaudeItems(entries) ==
    [i \in 1..Len(entries) |->
        HistoryItem(entries[i].session_id, entries[i].project, entries[i].display,
                    entries[i].timestamp, "Claude")]

\* lines 108-124
CodexItems(entries, codex_sessions) ==
    [i \in 1..Len(entries) |->
        LET id == entries[i].session_id
            cwd == IF id \in DOMAIN codex_sessions THEN codex_sessions[id] ELSE None
        IN HistoryItem(id, IF IsSome(cwd) THEN cwd[1] ELSE "Codex", entries[i].text,
                       entries[i].ts * 1000, "Codex")]

\* project.rsplit('/').next(), for the project paths drawn here
project_name_of(project) ==
    CASE project = "/w/a" -> <<"a">>
      [] project = "/w/b" -> <<"b">>
      [] project = "/w/c" -> <<"c">>
      [] project = "/w/d" -> <<"d">>
      [] project = "/w/e" -> <<"e">>
      [] project = "/w/f" -> <<"f">>
      [] OTHER -> <<"C", "o", "d", "e", "x">>

\* entries.sort_by(|a, b| b.timestamp.cmp(&a.timestamp)), a stable sort
sort_by_timestamp_desc(entries) ==
    LET keys == DescSeq({entries[i].timestamp : i \in 1..Len(entries)})
    IN Concat([k \in 1..Len(keys) |->
                  SelectSeq(entries, LAMBDA e : e.timestamp = keys[k])])

\* the filter on seen_session_keys, a set that starts empty for each project
first_per_session_key(entries) ==
    Concat([i \in 1..Len(entries) |->
        IF \E j \in 1..(i - 1) : /\ entries[j].source = entries[i].source
                                 /\ entries[j].session_id = entries[i].session_id
        THEN <<>> ELSE <<entries[i]>>])

LoadedItem(entry, project_name) ==
    [session_id |-> entry.session_id, source |-> entry.source,
     project_name |-> project_name, project_path |-> entry.project_path,
     latest_user_message |-> entry.display,
     datetime |-> datetime_from_millis(entry.timestamp)]

\* lines 139-174: the group built from one key of history_items
group_of_project(items, project) ==
    LET entries == sort_by_timestamp_desc(SelectSeq(items, LAMBDA e : e.project_path = project))
        kept == first_per_session_key(entries)
    IN ProjectGroup(project, project_name_of(project),
                    [i \in 1..Len(kept) |-> LoadedItem(kept[i], project_name_of(project))])

\* project_groups.sort_by on sessions.first().datetime descending, stable
sort_groups_by_latest(groups) ==
    LET keys == DescSeq({groups[i].sessions[1].datetime : i \in 1..Len(groups)})
    IN Concat([k \in 1..Len(keys) |->
                  SelectSeq(groups, LAMBDA g : g.sessions[1].datetime = keys[k])])

\* the orders in which a HashMap may hand out its keys
IterationOrders(keys) ==
    {f \in [1..Cardinality(keys) -> keys] : \A i, j \in DOMAIN f : i /= j => f[i] /= f[j]}

\* the home directories drawn: Claude alone with every history file, Codex
\* beside a short Claude history, and either base directory absent
InitLoad ==
    /\ \/ input = Disk(TRUE, None, FALSE, <<>>, None)
       \/ \E n \in 0..MaxLines : \E d \in [1..n -> ClaudeDrafts] :
             \E f \in WithSkippedLine(d) :
                input = Disk(TRUE, Some(ClaudeFile(f)), FALSE, <<>>, None)
       \/ \E dir \in SessionDirs(MaxFiles) :
             \E n \in 0..(MaxLines - 1) : \E d \in [1..n -> CodexDrafts] :
                \E f \in WithSkippedLine(d) :
                   input = Disk(TRUE, Some(OneClaudeLine), TRUE, dir, Some(CodexFile(f)))
       \/ \E n \in 0..MaxLines : \E d \in [1..n -> CodexDrafts] :
             \E f \in WithSkippedLine(d) :
                input = Disk(TRUE, None, TRUE, OneSessionDir, Some(CodexFile(f)))
       \/ \E dir \in SessionDirs(MaxFiles) :
             \E h \in {None, Some(CodexFile(<< [kind |-> "entry", session_id |-> "c1", ts |-> 1] >>))} :
                input = Disk(FALSE, None, TRUE, dir, h)
       \/ input = Disk(FALSE, None, FALSE, <<>>, None)
    /\ result = [claude_entries |-> None, codex_entries |-> None, history_items |-> <<>>]
    /\ model = Model_new
    /\ pc = "load_claude"
    /\ now = 0
    /\ async_chan = <<>>
    /\ workers = EmptyBag
    /\ load_log = <<>>

\* lines 78-96: ClaudePaths::new()? and the Claude history
LoadClaude ==
    /\ pc = "load_claude"
    /\ IF ~input.claude_dir
       THEN pc' = "failed" /\ UNCHANGED result
       ELSE IF ~IsSome(input.claude_history)
       THEN pc' = "load_codex" /\ UNCHANGED result
       ELSE LET entries == HistoryReader_read_all(input.claude_history[1])
            IN IF ~entries.ok
               THEN pc' = "failed" /\ UNCHANGED result
               ELSE /\ pc' = "load_codex"
                    /\ result' = [result EXCEPT
                          !.claude_entries = Some(entries.value),
                          !.history_items = @ \o ClaudeItems(entries.value)]
    /\ UNCHANGED <<model, async_chan, workers, load_log, now, input>>

\* lines 98-127: CodexPaths::new(), the session index and the Codex history
LoadCodex ==
    /\ pc = "load_codex"
    /\ IF ~input.codex_dir
       THEN pc' = "group" /\ UNCHANGED result
       ELSE LET codex_sessions == build_session_index(input.codex_sessions)
            IN IF ~codex_sessions.ok
               THEN pc' = "failed" /\ UNCHANGED result
               ELSE IF ~IsSome(input.codex_history)
               THEN pc' = "group" /\ UNCHANGED result
               ELSE LET entries == CodexHistoryReader_read_all(input.codex_history[1])
                    IN IF ~entries.ok
                       THEN pc' = "failed" /\ UNCHANGED result
                       ELSE /\ pc' = "group"
                            /\ result' = [result EXCEPT
                                  !.codex_entries = Some(entries.value),
                                  !.history_items =
                                      @ \o CodexItems(entries.value, codex_sessions.value)]
    /\ UNCHANGED <<model, async_chan, workers, load_log, now, input>>

\* lines 129-184: the project groups, their order, and the first message
BuildIndex ==
    /\ pc = "group"
    /\ LET items == result.history_items
           projects == {items[i].project_path : i \in 1..Len(items)}
       IN IF items = <<>>
          THEN model' = update(Model_new, Msg("Initialized"))
          ELSE \E order \in IterationOrders(projects) :
                  model' = update(
                      with_project_groups(Model_new,
                          sort_groups_by_latest(
                              [k \in 1..Len(order) |-> group_of_project(items, order[k])])),
                      Msg("Initialized"))
    /\ pc' = "drain"
    /\ UNCHANGED <<async_chan, workers, load_log, now, input, result>>

NextLoad == LoadClaude \/ LoadCodex \/ BuildIndex

SpecLoad == InitLoad /\ [][NextLoad]_vars

(***************************************************************************)
(* src/config/paths.rs: the two encodings of a project path                *)
(*                                                                         *)
(* input is the path, result the encoded and then the decoded string.      *)
(***************************************************************************)
RECURSIVE replace(_, _, _)
\* str::replace: every non-overlapping match of from, found left to right
replace(s, from, to) ==
    IF Len(s) < Len(from) THEN s
    ELSE IF SubSeq(s, 1, Len(from)) = from
    THEN to \o replace(SubSeq(s, Len(from) + 1, Len(s)), from, to)
    ELSE <<Head(s)>> \o replace(Tail(s), from, to)

RECURSIVE replacen(_, _, _, _)
\* str::replacen: the first count matches only
replacen(s, from, to, count) ==
    IF count = 0 \/ Len(s) < Len(from) THEN s
    ELSE IF SubSeq(s, 1, Len(from)) = from
    THEN to \o replacen(SubSeq(s, Len(from) + 1, Len(s)), from, to, count - 1)
    ELSE <<Head(s)>> \o replacen(Tail(s), from, to, count)

\* variant: the escaped percent sign is restored first
decode_project_path_percent_first(encoded) ==
    replace(replace(replace(replace(replace(encoded,
        <<"%", "2", "5">>, <<"%">>),
        <<"%", "2", "F">>, <<"/">>),
        <<"%", "2", "E">>, <<".">>),
        <<"%", "5", "F">>, <<"_">>),
        <<"%", "2", "D">>, <<"-">>)

decode_project_path(encoded) ==
    replace(replace(replace(replace(replace(encoded,
        <<"%", "2", "F">>, <<"/">>),
        <<"%", "2", "E">>, <<".">>),
        <<"%", "5", "F">>, <<"_">>),
        <<"%", "2", "D">>, <<"-">>),
        <<"%", "2", "5">>, <<"%">>)

encode_project_path(path) ==
    replace(replace(replace(replace(replace(path,
        <<"%">>, <<"%", "2", "5">>),
        <<"/">>, <<"%", "2", "F">>),
        <<".">>, <<"%", "2", "E">>),
        <<"_">>, <<"%", "5", "F">>),
        <<"-">>, <<"%", "2", "D">>)

encode_project_path_for_fs(path) ==
    replace(replace(replace(path, <<"/">>, <<"-">>), <<".">>, <<"-">>), <<"_">>, <<"-">>)

\* variant: only the leading hyphen becomes a slash
decode_project_path_from_fs_leading_only(encoded) ==
    IF encoded /= <<>> /\ Head(encoded) = "-"
    THEN replacen(encoded, <<"-">>, <<"/">>, 1)
    ELSE replace(encoded, <<"-">>, <<"/">>)

decode_project_path_from_fs(encoded) ==
    IF encoded /= <<>> /\ Head(encoded) = "-"
    THEN replace(replacen(encoded, <<"-">>, <<"/">>, 1), <<"-">>, <<"/">>)
    ELSE replace(encoded, <<"-">>, <<"/">>)

\* the separators, the escape character, the characters of the escape
\* tokens, and one character that is none of these
PathChars == {"/", ".", "_", "-", "%", "2", "5", "F", "E", "D", "a"}

InitPaths ==
    /\ \E n \in 0..MaxPathLen : input \in [1..n -> PathChars]
    /\ result = [encoded |-> None, decoded |-> None]
    /\ pc \in {"encode", "encode_fs"}
    /\ model = Model_new
    /\ now = 0
    /\ async_chan = <<>>
    /\ workers = EmptyBag
    /\ load_log = <<>>

EncodeProjectPath ==
    /\ pc = "encode"
    /\ result' = [result EXCEPT !.encoded = Some(encode_project_path(input))]
    /\ pc' = "decode"
    /\ UNCHANGED <<model, async_chan, workers, load_log, now, input>>

DecodeProjectPath ==
    /\ pc = "decode"
    /\ result' = [result EXCEPT !.decoded = Some(decode_project_path(result.encoded[1]))]
    /\ pc' = "done"
    /\ UNCHANGED <<model, async_chan, workers, load_log, now, input>>

EncodeProjectPathForFs ==
    /\ pc = "encode_fs"
    /\ result' = [result EXCEPT !.encoded = Some(encode_project_path_for_fs(input))]
    /\ pc' = "decode_fs"
    /\ UNCHANGED <<model, async_chan, workers, load_log, now, input>>

DecodeProjectPathFromFs ==
    /\ pc = "decode_fs"
    /\ result' = [result EXCEPT
          !.decoded = Some(decode_project_path_from_fs(result.encoded[1]))]
    /\ pc' = "done_fs"
    /\ UNCHANGED <<model, async_chan, workers, load_log, now, input>>

NextPaths ==
    \/ EncodeProjectPath \/ DecodeProjectPath
    \/ EncodeProjectPathForFs \/ DecodeProjectPathFromFs

SpecPaths == InitPaths /\ [][NextPaths]_vars

(***************************************************************************)
(* Functions studied on their own: the rest of the state stands still      *)
(***************************************************************************)
HostIdle ==
    /\ model = Model_new
    /\ now = 0
    /\ async_chan = <<>>
    /\ workers = EmptyBag
    /\ load_log = <<>>

(***************************************************************************)
(* src/search/engine.rs on its own                                         *)
(*                                                                         *)
(* input is the session list, the query text and the criteria; result the  *)
(* three index lists.                                                      *)
(***************************************************************************)
SearchedSessions ==
    {SessionListItem("s", "/w", name, text, day) :
        name \in {<<"a">>, <<"A", "b">>}, text \in {<<>>, <<"b">>}, day \in {0 - 1, 0, 1}}

SearchedCriteria ==
    {[date_range |-> [from |-> from, to |-> to], project_filter |-> project] :
        from \in {None, Some(0)}, to \in {None, Some(0)},
        project \in {None, Some(<<>>), Some(<<"a">>)}}

InitSearch ==
    /\ \E n \in 0..MaxSessions : \E sessions \in [1..n -> SearchedSessions] :
          \E text \in {<<>>, <<"a">>, <<"B">>} : \E criteria \in SearchedCriteria :
             input = [sessions |-> sessions, text |-> text, criteria |-> criteria]
    /\ result = [search |-> None, filter |-> None, search_and_filter |-> None]
    /\ pc = "search"
    /\ HostIdle

RunSearch ==
    /\ pc = "search"
    /\ result' = [result EXCEPT !.search = Some(search(input.sessions, input.text))]
    /\ pc' = "filter"
    /\ UNCHANGED <<model, async_chan, workers, load_log, now, input>>

RunFilter ==
    /\ pc = "filter"
    /\ result' = [result EXCEPT !.filter = Some(filter(input.sessions, input.criteria))]
    /\ pc' = "search_and_filter"
    /\ UNCHANGED <<model, async_chan, workers, load_log, now, input>>

RunSearchAndFilter ==
    /\ pc = "search_and_filter"
    /\ result' = [result EXCEPT !.search_and_filter =
                      Some(search_and_filter(input.sessions, input.text, input.criteria))]
    /\ pc' = "searched"
    /\ UNCHANGED <<model, async_chan, workers, load_log, now, input>>

NextSearch == RunSearch \/ RunFilter \/ RunSearchAndFilter

SpecSearch == InitSearch /\ [][NextSearch]_vars

(***************************************************************************)
(* src/data/codex_session_reader.rs: CodexSessionReader::read_entries      *)
(*                                                                         *)
(* input is the transcript, one record per line:                           *)
(*   line_type    : "response_item", "event_msg", "turn_context", "other", *)
(*                  or "malformed" for a line that is not JSON             *)
(*   payload_type : payload.type                                           *)
(*   role         : payload.role                                           *)
(*   content      : the text values of payload.content, in order           *)
(*   model        : payload.model                                          *)
(*   usage        : the token counts the payload carries, if any           *)
(*   timestamp    : the line's timestamp                                   *)
(* The i-th line has timestamp i, its text (if it has one) names the line  *)
(* and its token counts (if it has any) are i.  result is the state of the *)
(* scan: the entries so far, last_assistant_index, last_model and the      *)
(* number of lines consumed.                                               *)
(***************************************************************************)
CodexLineDraft(line_type, payload_type, role, content, model_name, usage) ==
    [line_type |-> line_type, payload_type |-> payload_type, role |-> role,
     content |-> content, model |-> model_name, usage |-> usage]

TranscriptDrafts ==
    { CodexLineDraft("response_item", "message", "assistant", "text", None, FALSE),
      CodexLineDraft("response_item", "message", "assistant", "text", Some("m1"), FALSE),
      CodexLineDraft("response_item", "message", "assistant", "text", Some("m2"), TRUE),
      CodexLineDraft("response_item", "message", "assistant", "none", None, FALSE),
      CodexLineDraft("response_item", "message", "user", "text", None, FALSE),
      CodexLineDraft("response_item", "message", "user", "blank", None, FALSE),
      CodexLineDraft("response_item", "message", "system", "text", None, FALSE),
      CodexLineDraft("response_item", "function_call", "", "none", None, FALSE),
      CodexLineDraft("event_msg", "token_count", "", "none", None, TRUE),
      CodexLineDraft("event_msg", "agent_message", "", "none", None, FALSE),
      CodexLineDraft("turn_context", "", "", "none", Some("m2"), FALSE),
      CodexLineDraft("other", "", "", "none", None, FALSE),
      CodexLineDraft("malformed", "", "", "none", None, FALSE) }

TranscriptLine(d, i) ==
    [line_type |-> d.line_type, payload_type |-> d.payload_type, role |-> d.role,
     content |-> CASE d.content = "text" -> << DisplayOf(i) >>
                   [] d.content = "blank" -> << <<" ">> >>
                   [] OTHER -> <<>>,
     model |-> d.model,
     usage |-> IF d.usage THEN Some(i) ELSE None,
     timestamp |-> i]

RECURSIVE trim(_)
\* str::trim on the texts drawn here (the only white space is " ")
trim(s) ==
    IF s = <<>> THEN s
    ELSE IF Head(s) = " " THEN trim(Tail(s))
    ELSE IF s[Len(s)] = " " THEN trim(SubSeq(s, 1, Len(s) - 1))
    ELSE s

\* Message::clean_text; the texts drawn hold no command tag, so the two
\* loops that cut tags out leave them as they are
clean_text(s) == trim(s)

RECURSIVE join_lines(_)
join_lines(texts) ==
    IF texts = <<>> THEN <<>>
    ELSE IF Len(texts) = 1 THEN Head(texts)
    ELSE Head(texts) \o <<"\n">> \o join_lines(Tail(texts))

\* Message::all_text_content for MessageContent::Blocks of text blocks
all_text_content(message) ==
    join_lines([i \in 1..Len(message.content) |-> clean_text(message.content[i])])

\* SessionEntry::display_text
display_text(entry) ==
    IF all_text_content(entry.message) /= <<>>
    THEN Some(all_text_content(entry.message)) ELSE None

\* lines 288-308: the token counts of a token_count event
parse_token_count_usage(line) ==
    IF line.payload_type /= "token_count" THEN None ELSE line.usage

RECURSIVE fill_models(_, _)
\* one pass of backfill_assistant_models over the entries in the order given
fill_models(entries, last_model) ==
    IF entries = <<>> THEN <<>>
    ELSE LET entry == Head(entries)
         IN IF entry.message.role /= "assistant"
            THEN <<entry>> \o fill_models(Tail(entries), last_model)
            ELSE IF IsSome(entry.message.model)
            THEN <<entry>> \o fill_models(Tail(entries), entry.message.model)
            ELSE <<[entry EXCEPT !.message.model = last_model]>>
                    \o fill_models(Tail(entries), last_model)

Reversed(s) == [i \in 1..Len(s) |-> s[Len(s) + 1 - i]]

\* variant: the forward pass alone
backfill_assistant_models_forward_only(entries) == fill_models(entries, None)

backfill_assistant_models(entries) ==
    Reversed(fill_models(Reversed(fill_models(entries, None)), None))

\* variant: a token_count event always replaces the usage
attach_usage_overwrites(entries, last_assistant_index, usage) ==
    IF IsSome(usage) /\ IsSome(last_assistant_index)
          /\ last_assistant_index[1] < Len(entries)
    THEN [entries EXCEPT ![last_assistant_index[1] + 1].message.usage = usage]
    ELSE entries

\* lines 161-174
attach_usage(entries, last_assistant_index, usage) ==
    IF IsSome(usage) /\ IsSome(last_assistant_index)
          /\ last_assistant_index[1] < Len(entries)
          /\ ~IsSome(entries[last_assistant_index[1] + 1].message.usage)
    THEN [entries EXCEPT ![last_assistant_index[1] + 1].message.usage = usage]
    ELSE entries

\* lines 216-240: the entry pushed for a message line
SessionEntry(line, last_model) ==
    [entry_type |-> Some(line.role),
     message |-> [role |-> line.role, content |-> line.content,
                  model |-> IF IsSome(line.model) THEN line.model ELSE last_model,
                  usage |-> line.usage],
     timestamp |-> line.timestamp]

\* lines 147-247: one turn of the loop over the lines
scan_line(scan, line) ==
    LET consumed == [scan EXCEPT !.line = @ + 1]
    IN CASE line.line_type = "malformed" -> consumed
         [] line.line_type = "event_msg" ->
              [consumed EXCEPT !.entries =
                  attach_usage(scan.entries, scan.last_assistant_index,
                               parse_token_count_usage(line))]
         [] line.line_type = "turn_context" -> [consumed EXCEPT !.last_model = line.model]
         [] line.line_type /= "response_item" -> consumed
         [] OTHER ->
              IF \/ line.payload_type /= "message"
                 \/ line.role \notin {"user", "assistant"}
                 \/ line.content = <<>>
              THEN consumed
              ELSE [consumed EXCEPT
                      !.entries = Append(@, SessionEntry(line, scan.last_model)),
                      !.last_assistant_index =
                          IF line.role = "assistant" THEN Some(Len(scan.entries)) ELSE @]

InitTranscript ==
    /\ \E n \in 0..MaxTranscript : \E d \in [1..n -> TranscriptDrafts] :
          input = [i \in 1..n |-> TranscriptLine(d[i], i)]
    /\ result = [entries |-> <<>>, last_assistant_index |-> None, last_model |-> None,
                 line |-> 0]
    /\ pc = "scan"
    /\ HostIdle

ScanLine ==
    /\ pc = "scan"
    /\ result.line < Len(input)
    /\ result' = scan_line(result, input[result.line + 1])
    /\ UNCHANGED <<model, pc, async_chan, workers, load_log, now, input>>

Backfill ==
    /\ pc = "scan"
    /\ result.line = Len(input)
    /\ result' = [result EXCEPT !.entries = backfill_assistant_models(@)]
    /\ pc' = "read"
    /\ UNCHANGED <<model, async_chan, workers, load_log, now, input>>

NextTranscript == ScanLine \/ Backfill

SpecTranscript == InitTranscript /\ [][NextTranscript]_vars

(***************************************************************************)
(* src/export/writer.rs: unique_path and write_to_file on a directory that *)
(* exists and is writable, always with the same file name                  *)
(*                                                                         *)
(* A file of the directory is named by its suffix: None for the name       *)
(* itself, Some(n) for stem_n.ext.  input is the set of files before the   *)
(* first call; result holds the files now and the paths returned so far.   *)
(* Here now counts the seconds since the first call.                       *)
(***************************************************************************)
\* the numbers unique_path tries (1..=999 in the program)
MaxAttempts == 2

\* the system clock at the first call, in seconds since the Unix epoch
ClockStart == MaxAttempts + 1

ExportNames == {None} \cup {Some(n) : n \in 1..(ClockStart + MaxClock)}

unique_path(files, clock) ==
    IF None \notin files THEN None
    ELSE IF \E i \in 1..MaxAttempts : Some(i) \notin files
    THEN Some(CHOOSE i \in 1..MaxAttempts :
                 Some(i) \notin files /\ \A j \in 1..(i - 1) : Some(j) \in files)
    ELSE Some(clock)

InitWriter ==
    /\ input \in SUBSET ExportNames
    /\ result = [files |-> input, paths |-> <<>>]
    /\ pc = "write"
    /\ model = Model_new
    /\ now = 0
    /\ async_chan = <<>>
    /\ workers = EmptyBag
    /\ load_log = <<>>

\* lines 82-96 of write_to_file: the path is chosen, then written
WriteToFile ==
    /\ pc = "write"
    /\ Len(result.paths) < MaxWrites
    /\ LET path == unique_path(result.files, ClockStart + now)
       IN result' = [files |-> result.files \cup {path},
                     paths |-> Append(result.paths, path)]
    /\ UNCHANGED <<model, pc, async_chan, workers, load_log, now, input>>

SecondPasses ==
    /\ pc = "write"
    /\ now < MaxClock
    /\ now' = now + 1
    /\ UNCHANGED <<model, pc, async_chan, workers, load_log, input, result>>

NextWriter == WriteToFile \/ SecondPasses

SpecWriter == InitWriter /\ [][NextWriter]_vars

(***************************************************************************)
(* src/export/writer.rs: generate_filename                                 *)
(*                                                                         *)
(* input is the session (project path, started_at, id) and the format;     *)
(* result the file name.  A character outside ASCII is written U+xxxx.     *)
(***************************************************************************)
\* U+00E9 is a letter and U+0663 a digit outside ASCII
NameChars == {"a", "Z", "7", "-", "_", ".", " ", "/", "U+00E9", "U+0663"}

\* char::is_alphanumeric: Alphabetic or Numeric in Unicode
is_alphanumeric(c) == c \in {"a", "Z", "7", "U+00E9", "U+0663"}

RECURSIVE Session_project_name(_)
\* project.rsplit('/').next()
Session_project_name(project) ==
    IF project = <<>> THEN <<>>
    ELSE IF project[Len(project)] = "/" THEN <<>>
    ELSE Session_project_name(SubSeq(project, 1, Len(project) - 1))
            \o <<project[Len(project)]>>

\* dt.format("%Y%m%d_%H%M") of the two instants drawn
StartedAt ==
    {None,
     Some([ymd |-> <<"2", "0", "2", "5", "0", "1", "1", "5">>, hm |-> <<"1", "0", "0", "0">>])}

SessionIds ==
    {<<>>, <<"a", "b", "c">>, <<"0", "1", "2", "3", "4", "5", "6", "7">>,
     <<"0", "1", "2", "3", "4", "5", "6", "7", "-", "8">>}

extension_chars(format) ==
    IF format = "Markdown" THEN <<"m", "d">> ELSE <<"j", "s", "o", "n">>

generate_filename_chars(session, format) ==
    LET name == Session_project_name(session.project)
        project_name == [i \in 1..Len(name) |->
                            IF is_alphanumeric(name[i]) \/ name[i] = "-" \/ name[i] = "_"
                            THEN name[i] ELSE "_"]
        date_str == IF IsSome(session.started_at)
                    THEN session.started_at[1].ymd \o <<"_">> \o session.started_at[1].hm
                    ELSE <<"u", "n", "k", "n", "o", "w", "n">>
        session_id_short == SubSeq(session.id, 1, IF Len(session.id) < 8 THEN Len(session.id) ELSE 8)
    IN project_name \o <<"_">> \o date_str \o <<"_">> \o session_id_short
          \o <<".">> \o extension_chars(format)

InitFilename ==
    /\ \E n \in 0..MaxNameLen : \E project \in [1..n -> NameChars] :
          \E started_at \in StartedAt : \E id \in SessionIds :
             \E format \in {"Markdown", "Json"} :
                input = [session |-> [project |-> project, started_at |-> started_at,
                                      id |-> id],
                         format |-> format]
    /\ result = None
    /\ pc = "name"
    /\ HostIdle

GenerateFilename ==
    /\ pc = "name"
    /\ result' = Some(generate_filename_chars(input.session, input.format))
    /\ pc' = "named"
    /\ UNCHANGED <<model, async_chan, workers, load_log, now, input>>

SpecFilename == InitFilename /\ [][GenerateFilename]_vars

(***************************************************************************)
(* src/domain/billing.rs and MessageBlock::usage_meta                      *)
(*                                                                         *)
(* A model name is a sequence of symbols: a word of letters, a digit, "-"  *)
(* or "."; a rate is in hundredths of a dollar per million tokens.  input  *)
(* is the message's model and usage; result what usage_meta computes.      *)
(* The usage drawn has no cache counts, so that the totals are the input   *)
(* and the output tokens.                                                  *)
(***************************************************************************)
CostRate(input_per_million, output_per_million) ==
    [input_per_million |-> input_per_million, output_per_million |-> output_per_million]

\* variant: the family key gpt-5 is tested before the keys that extend it
cost_rate_for_model_family_first(model_name) ==
    LET name == to_lowercase(model_name)
    IN
    IF \/ contains(name, <<"gpt", "-", "5">>)
    THEN Some(CostRate(125, 1000))
    ELSE
    IF \/ contains(name, <<"claude", "-", "4", "-", "5", "-", "opus">>)
       \/ contains(name, <<"claude", "-", "4", "-", "opus">>)
       \/ contains(name, <<"opus", "-", "4", "-", "5">>)
       \/ contains(name, <<"opus", "-", "4">>)
    THEN Some(CostRate(500, 2500))
    ELSE
    IF \/ contains(name, <<"claude", "-", "3", "-", "5", "-", "sonnet">>)
       \/ contains(name, <<"claude", "-", "3", "-", "7", "-", "sonnet">>)
    THEN Some(CostRate(300, 1500))
    ELSE
    IF \/ contains(name, <<"claude", "-", "3", "-", "5", "-", "haiku">>)
       \/ contains(name, <<"claude", "-", "3", "-", "haiku">>)
    THEN Some(CostRate(25, 125))
    ELSE
    IF \/ contains(name, <<"claude", "-", "3", "-", "opus">>)
    THEN Some(CostRate(1500, 7500))
    ELSE
    IF \/ contains(name, <<"claude", "-", "3", "-", "sonnet">>)
    THEN Some(CostRate(300, 1500))
    ELSE
    IF \/ contains(name, <<"gpt", "-", "5", ".", "2", "-", "pro">>)
    THEN Some(CostRate(2100, 16800))
    ELSE
    IF \/ contains(name, <<"gpt", "-", "5", "-", "pro">>)
    THEN Some(CostRate(1500, 12000))
    ELSE
    IF \/ contains(name, <<"gpt", "-", "5", ".", "2">>)
       \/ contains(name, <<"gpt", "-", "5", "-", "2">>)
    THEN Some(CostRate(175, 1400))
    ELSE
    IF \/ contains(name, <<"gpt", "-", "5", "-", "mini">>)
    THEN Some(CostRate(25, 200))
    ELSE
    IF \/ contains(name, <<"gpt", "-", "5", "-", "nano">>)
    THEN Some(CostRate(5, 40))
    ELSE
    None

cost_rate_for_model(model_name) ==
    LET name == to_lowercase(model_name)
    IN
    IF \/ contains(name, <<"claude", "-", "4", "-", "5", "-", "opus">>)
       \/ contains(name, <<"claude", "-", "4", "-", "opus">>)
       \/ contains(name, <<"opus", "-", "4", "-", "5">>)
       \/ contains(name, <<"opus", "-", "4">>)
    THEN Some(CostRate(500, 2500))
    ELSE
    IF \/ contains(name, <<"claude", "-", "3", "-", "5", "-", "sonnet">>)
       \/ contains(name, <<"claude", "-", "3", "-", "7", "-", "sonnet">>)
    THEN Some(CostRate(300, 1500))
    ELSE
    IF \/ contains(name, <<"claude", "-", "3", "-", "5", "-", "haiku">>)
       \/ contains(name, <<"claude", "-", "3", "-", "haiku">>)
    THEN Some(CostRate(25, 125))
    ELSE
    IF \/ contains(name, <<"claude", "-", "3", "-", "opus">>)
    THEN Some(CostRate(1500, 7500))
    ELSE
    IF \/ contains(name, <<"claude", "-", "3", "-", "sonnet">>)
    THEN Some(CostRate(300, 1500))
    ELSE
    IF \/ contains(name, <<"gpt", "-", "5", ".", "2", "-", "pro">>)
    THEN Some(CostRate(2100, 16800))
    ELSE
    IF \/ contains(name, <<"gpt", "-", "5", "-", "pro">>)
    THEN Some(CostRate(1500, 12000))
    ELSE
    IF \/ contains(name, <<"gpt", "-", "5", ".", "2">>)
       \/ contains(name, <<"gpt", "-", "5", "-", "2">>)
    THEN Some(CostRate(175, 1400))
    ELSE
    IF \/ contains(name, <<"gpt", "-", "5", "-", "mini">>)
    THEN Some(CostRate(25, 200))
    ELSE
    IF \/ contains(name, <<"gpt", "-", "5", "-", "nano">>)
    THEN Some(CostRate(5, 40))
    ELSE
    IF \/ contains(name, <<"gpt", "-", "5">>)
    THEN Some(CostRate(125, 1000))
    ELSE
    None

estimate_cost_usd(model_name, usage) ==
    LET rate == cost_rate_for_model(model_name)
    IN IF rate = None THEN None
       ELSE Some(usage.input_tokens[1] * rate[1].input_per_million
                    + usage.output_tokens[1] * rate[1].output_per_million)

\* None, or the cost text: "n/a" or the formatted cost
usage_meta(message) ==
    IF message.usage = None THEN None
    ELSE IF message.usage[1].input_tokens = None \/ message.usage[1].output_tokens = None
    THEN None
    ELSE LET cost == IF message.model = None THEN None
                     ELSE estimate_cost_usd(message.model[1], message.usage[1])
         IN Some([cost_text |-> IF cost = None THEN "n/a" ELSE "cost",
                  cost_is_na |-> cost = None])

ModelFragments ==
    {<<"gpt", "-", "5">>,
     <<"GPT", "-", "5">>,
     <<".", "2">>,
     <<"-", "2">>,
     <<"-", "pro">>,
     <<"-", "mini">>,
     <<"-", "nano">>,
     <<"claude", "-", "3">>,
     <<"claude", "-", "4">>,
     <<"-", "5">>,
     <<"-", "7">>,
     <<"-", "opus">>,
     <<"-", "sonnet">>,
     <<"-", "haiku">>,
     <<"opus", "-", "4">>,
     <<"x">>}

Usages ==
    {None,
     Some([input_tokens |-> Some(0), output_tokens |-> Some(0)]),
     Some([input_tokens |-> Some(1), output_tokens |-> Some(2)]),
     Some([input_tokens |-> Some(1), output_tokens |-> None])}

InitBilling ==
    /\ \E n \in 0..MaxPieces : \E pieces \in [1..n -> ModelFragments] :
          \E named \in BOOLEAN : \E usage \in Usages :
             input = [model |-> IF named THEN Some(Concat(pieces)) ELSE None,
                      usage |-> usage]
    /\ result = None
    /\ pc = "price"
    /\ HostIdle

UsageMeta ==
    /\ pc = "price"
    /\ result' = Some([rate |-> IF input.model = None THEN None
                                 ELSE cost_rate_for_model(input.model[1]),
                        meta |-> usage_meta(input)])
    /\ pc' = "priced"
    /\ UNCHANGED <<model, async_chan, workers, load_log, now, input>>

SpecBilling == InitBilling /\ [][UsageMeta]_vars

(***************************************************************************)
(* src/main.rs: main and count_sessions                                    *)
(*                                                                         *)
(* input is the command line and the Claude home directory; result what    *)
(* the count mode prints.  A HashMap is iterated in an order the program   *)
(* does not choose: every order is an outcome.                             *)
(***************************************************************************)
TopProjects == 5

ProjectPaths == <<"/w/a", "/w/b", "/w/c", "/w/d", "/w/e", "/w/f">>

\* the lines of a history file with per_project[j] entries of the j-th
\* project, written by one session or by two in turn
RECURSIVE CountLines(_, _, _)
CountLines(per_project, sessions, j) ==
    IF j > Len(per_project) THEN <<>>
    ELSE [i \in 1..per_project[j] |->
             [kind |-> "entry",
              session_id |-> IF sessions = 2 /\ (i + j) % 2 = 0 THEN "s2" ELSE "s1",
              project |-> ProjectPaths[j], timestamp |-> 0, display |-> DisplayOf(i)]]
         \o CountLines(per_project, sessions, j + 1)

group_by_project(lines) ==
    LET read == HistoryReader_read_all(lines)
        entries == read.value
        keys == {entries[i].project : i \in 1..Len(entries)}
    IN [ok |-> read.ok,
        value |-> [p \in keys |-> SelectSeq(entries, LAMBDA e : e.project = p)]]

\* projects.iter().take(n): the first n keys of an iteration order
take(keys, n) ==
    LET k == IF Cardinality(keys) < n THEN Cardinality(keys) ELSE n
    IN {f \in [1..k -> keys] : \A i, j \in 1..k : i /= j => f[i] /= f[j]}

InitCount ==
    /\ \E count_flag \in BOOLEAN :
          \/ input = [count_sessions |-> count_flag, claude_dir |-> FALSE, history |-> None]
          \/ input = [count_sessions |-> count_flag, claude_dir |-> TRUE, history |-> None]
          \/ \E n \in 0..Len(ProjectPaths) : \E per_project \in [1..n -> 1..MaxPerProject] :
                \E sessions \in 1..2 : \E skipped \in SUBSET SkippedLines :
                   input = [count_sessions |-> count_flag, claude_dir |-> TRUE,
                            history |-> Some(
                               (IF [kind |-> "malformed"] \in skipped
                                THEN << [kind |-> "malformed"] >> ELSE <<>>)
                               \o CountLines(per_project, sessions, 1)
                               \o (IF [kind |-> "no_session_id"] \in skipped
                                   THEN << [kind |-> "no_session_id"] >> ELSE <<>>))]
    /\ result = None
    /\ pc = "main"
    /\ HostIdle

count_sessions_unchanged == UNCHANGED <<model, async_chan, workers, load_log, now, input>>

CountSessions ==
    /\ pc = "main"
    /\ input.count_sessions
    /\ IF ~input.claude_dir \/ input.history = None
       THEN /\ result' = Some([exit |-> 1])
            /\ pc' = "exited"
       ELSE LET read == HistoryReader_read_all(input.history[1])
                entries == read.value
                projects == group_by_project(input.history[1]).value
            IN /\ \E first \in take(DOMAIN projects, TopProjects) :
                     result' = Some(
                        [exit |-> 0,
                         total_entries |-> Len(entries),
                         unique_sessions |->
                            Cardinality({entries[i].session_id : i \in 1..Len(entries)}),
                         projects |-> Cardinality(DOMAIN projects),
                         shown |-> [i \in DOMAIN first |->
                                       [project |-> first[i],
                                        name |-> project_name_of(first[i]),
                                        entries |-> Len(projects[first[i]])]],
                         more |-> IF Cardinality(DOMAIN projects) > TopProjects
                                  THEN Some(Cardinality(DOMAIN projects) - TopProjects)
                                  ELSE None])
               /\ pc' = "counted"
    /\ count_sessions_unchanged

\* any other command line starts the terminal UI
RunTui ==
    /\ pc = "main"
    /\ ~input.count_sessions
    /\ pc' = "tui"
    /\ UNCHANGED result
    /\ count_sessions_unchanged

NextCount == CountSessions \/ RunTui

SpecCount == InitCount /\ [][NextCount]_vars

(***************************************************************************)
(* The main loop in the search bar and the filter panel: the keys of the   *)
(* session list that open and clear them, and the keys of the two dialogs  *)
(***************************************************************************)
NextDialog == Render \/ PollNone \/ SearchKey

SpecDialog == Init /\ [][NextDialog]_vars

(***************************************************************************)
(* The main loop over one project with two sessions: moving in the list,   *)
(* opening the detail view and the export dialog, export threads           *)
(***************************************************************************)
NextExport ==
    \/ DrainOne \/ Render \/ WorkerFinish \/ PollNone
    \/ KeyMoveUp \/ KeyMoveDown \/ KeyExpandCurrentProject
    \/ KeyEnterDetail \/ KeyBackToList
    \/ KeyStartExport \/ KeyConfirmExport \/ KeyCancelExport

SpecExport == Loaded({IndexOneProject}) /\ [][NextExport]_vars

(***************************************************************************)
(* src/export/writer.rs run by the threads of App::start_export            *)
(*                                                                         *)
(* MaxWorkers threads export the same session in the same format into the  *)
(* same directory: each calls unique_path, which probes the directory, and *)
(* later fs::write on the path it got.  result.files is the directory,     *)
(* result.chosen and result.written are per thread the path returned by    *)
(* unique_path and the path written (None before that step).               *)
(***************************************************************************)
InitRace ==
    /\ input \in SUBSET ExportNames
    /\ result = [files |-> input,
                 chosen |-> [w \in 1..MaxWorkers |-> None],
                 written |-> [w \in 1..MaxWorkers |-> None]]
    /\ pc = "export"
    /\ HostIdle

\* line 84: let path = unique_path(&base_path)
UniquePath ==
    /\ pc = "export"
    /\ \E w \in 1..MaxWorkers :
          /\ result.chosen[w] = None
          /\ result' = [result EXCEPT
                           !.chosen[w] = Some(unique_path(result.files, ClockStart + now))]
    /\ UNCHANGED <<model, pc, async_chan, workers, load_log, now, input>>

\* line 91: fs::write(&path, content) creates the file or replaces it
FsWrite ==
    /\ pc = "export"
    /\ \E w \in 1..MaxWorkers :
          /\ result.chosen[w] /= None
          /\ result.written[w] = None
          /\ result' = [result EXCEPT
                           !.files = @ \cup {result.chosen[w][1]},
                           !.written[w] = result.chosen[w]]
    /\ UNCHANGED <<model, pc, async_chan, workers, load_log, now, input>>

NextRace == UniquePath \/ FsWrite

SpecRace == InitRace /\ [][NextRace]_vars

(***************************************************************************)
(* Properties                                                              *)
(***************************************************************************)
StatusTag(m) == IF IsSome(m.export_status) THEN m.export_status[1].tag ELSE "None"

Finished(m) == StatusTag(m) \in {"Success", "Error"}

\* export jobs spawned whose result the reducer has not seen yet
InFlight == BagCardinality(workers) + Len(async_chan)

\* C1: export_status moves only along Selecting -> Exporting -> Success |
\* Error: it becomes Success or Error only from Exporting, it becomes
\* Exporting only from Selecting, and while it is Exporting, Success or Error
\* the only key input that changes the model is CancelExport or Quit.
C1_ExportStatusMachine ==
    [][ /\ (Finished(model') /\ model'.export_status /= model.export_status)
            => StatusTag(model) = "Exporting"
        /\ (StatusTag(model') = "Exporting" /\ StatusTag(model) /= "Exporting")
            => StatusTag(model) = "Selecting"
        /\ (/\ PollStep
            /\ StatusTag(model) \in {"Exporting", "Success", "Error"}
            /\ model' /= model)
            => (KeyCancelExport \/ KeyQuit) ]_vars

\* C2: at most one export job is in flight: after a job is spawned no other
\* job is spawned until its ExportCompleted / ExportFailed reached the reducer.
C2_SingleExportInFlight == InFlight <= 1

\* C3: a polled ConfirmExport finds export_status = Selecting and a loaded
\* session, sets the status to Exporting and spawns exactly one job for the
\* current session, changing nothing else; in every state where the status is
\* not Selecting or no session is loaded the ConfirmExport arm of the host
\* leaves the model unchanged and spawns nothing.
C3_Inert ==
    (StatusTag(model) /= "Selecting" \/ ~IsSome(model.current_session))
        => ConfirmExport_host(model, workers) = [model |-> model, workers |-> workers]

C3_Step ==
    KeyConfirmExport =>
        /\ StatusTag(model) = "Selecting"
        /\ IsSome(model.current_session)
        /\ model' = [model EXCEPT !.export_status = Some(Exporting)]
        /\ workers' = workers (+) SetToBag({[session |-> model.current_session[1],
                                             format |-> model.export_format]})
        /\ BagCardinality(workers') = BagCardinality(workers) + 1

C3_ConfirmExportGuard == [](C3_Inert) /\ [][C3_Step]_vars

C3_Witness ==
    /\ StatusTag(model) = "Exporting"
    /\ IsSome(model.current_session)
    /\ BagIn([session |-> model.current_session[1], format |-> model.export_format],
             workers)

\* C4: while the main loop keeps iterating, a status of Exporting is
\* eventually replaced by Success or Error (the job's result is sent, received
\* at the top of an iteration and applied).
C4_ExportingEnds ==
    (StatusTag(model) = "Exporting") ~> (Finished(model) \/ pc = "done")

C4_Witness ==
    /\ StatusTag(model) = "Success"
    /\ InFlight = 0
    /\ model.view_mode = "Export"

\* C5: a failed write reaches the reducer as ExportFailed(reason): the status
\* becomes Error(reason), should_quit and error_message keep their values and
\* the main loop goes on; the worker sends ExportFailed exactly for the
\* directory states in which write_to_file fails.
C5_Step ==
    /\ (DrainOne /\ Head(async_chan).type = "ExportFailed")
        => /\ model'.export_status =
                  Some(ExportStatus("Error", Head(async_chan).error))
           /\ model'.should_quit = model.should_quit
           /\ model'.error_message = model.error_message
           /\ pc' = "drain"
    /\ WorkerFinish
        => /\ Len(async_chan') = Len(async_chan) + 1
           /\ LET sent == async_chan'[Len(async_chan')]
              IN \E job \in BagToSet(workers), dir \in DirStates :
                    /\ workers' = workers (-) SetToBag({job})
                    /\ IF dir = "ok"
                       THEN sent = [type |-> "ExportCompleted",
                                    path |-> <<job.session.id, extension(job.format)>>]
                       ELSE sent = [type |-> "ExportFailed", error |-> <<dir>>]
           /\ model' = model /\ pc' = pc

C5_ExportFailureContained == [][C5_Step]_vars

C5_Witness ==
    /\ StatusTag(model) = "Error"
    /\ model.export_status[1].arg \in {<<"missing">>, <<"readonly">>, <<"write_error">>}
    /\ ~model.should_quit
    /\ model.error_message = None
    /\ pc = "drain"

\* C6: the flattened tree has one Project row per active group, followed by
\* that group's Session rows exactly when its path is expanded; its length is
\* (#active groups) + sum of the session counts of the expanded active groups.
C6_TreeShape ==
    LET groups == active_project_groups(model)
        n == Len(groups)
        shown(k) == IF groups[k].project_path \in model.expanded_projects
                    THEN Len(groups[k].sessions) ELSE 0
        start[k \in 0..n] == IF k = 0 THEN 0 ELSE start[k - 1] + 1 + shown(k)
        row(i) == model.tree_items[i]
    IN /\ Len(model.tree_items) = start[n]
       /\ \A k \in 1..n :
             LET at == start[k - 1] + 1
             IN /\ row(at).kind = "Project"
                /\ row(at).project_path = groups[k].project_path
                /\ row(at).child_count = Len(groups[k].sessions)
                /\ \A i \in 1..shown(k) :
                      /\ row(at + i).kind = "Session"
                      /\ row(at + i).session = Some(groups[k].sessions[i])

C6_Witness ==
    /\ Len(model.project_groups) = 2
    /\ model.is_filtered
    /\ Len(model.filtered_project_groups) = 2
    /\ model.expanded_projects = {"/w/a"}
    /\ Len(model.tree_items) = 3

\* C7: whenever the tree is non-empty the selection is a valid index into it.
C7_SelectionInRange ==
    model.tree_items /= <<>> => model.selected_index < Len(model.tree_items)

\* C8: the expand/collapse set is checkpointed once when a search or filter
\* becomes active, every application made while active sets expanded_projects
\* to the project paths of the filtered result, the checkpoint is kept while
\* active, and leaving the filtered state restores the checkpointed set.
FilteredPaths(m) ==
    {m.filtered_project_groups[i].project_path : i \in 1..Len(m.filtered_project_groups)}

\* the messages whose arm ends in apply_search
Applications ==
    {Msg("SearchBackspace"), Msg("ConfirmSearch"), Msg("CancelSearch"), Msg("ApplyFilter")}
        \cup {[type |-> "SearchInput", c |-> c] : c \in Chars}

C8_Applied ==
    \A msg \in Applications :
        LET m == update(model, msg)
        IN m.is_filtered => m.expanded_projects = FilteredPaths(m)

C8_Step ==
    /\ (~model.is_filtered /\ model'.is_filtered)
          => model'.expanded_projects_before_filter = Some(model.expanded_projects)
    /\ (model.is_filtered /\ model'.is_filtered)
          => model'.expanded_projects_before_filter
                = model.expanded_projects_before_filter
    /\ (model.is_filtered /\ ~model'.is_filtered)
          => /\ IsSome(model.expanded_projects_before_filter)
             /\ model'.expanded_projects = model.expanded_projects_before_filter[1]
    /\ ~model'.is_filtered => model'.expanded_projects_before_filter = None

C8_ExpandedCheckpoint == [](C8_Applied) /\ [][C8_Step]_vars

C8_Witness ==
    /\ model.is_filtered
    /\ model.expanded_projects_before_filter = Some({"/w/a"})
    /\ model.expanded_projects = {"/w/b"}

\* C9: filtered_project_groups is an order-preserving subset of
\* project_groups: same relative group order, each group's sessions a
\* subsequence of the sessions of the group with the same path, none empty.
RECURSIVE IsSubsequence(_, _)
IsSubsequence(a, b) ==
    IF a = <<>> THEN TRUE
    ELSE IF b = <<>> THEN FALSE
    ELSE IF Head(a) = Head(b) THEN IsSubsequence(Tail(a), Tail(b))
    ELSE IsSubsequence(a, Tail(b))

PathsOf(groups) == [i \in 1..Len(groups) |-> groups[i].project_path]

C9_FilteredSubset ==
    LET fg == model.filtered_project_groups
        pg == model.project_groups
    IN /\ IsSubsequence(PathsOf(fg), PathsOf(pg))
       /\ \A k \in 1..Len(fg) :
             /\ fg[k].sessions /= <<>>
             /\ \E j \in 1..Len(pg) :
                   /\ pg[j].project_path = fg[k].project_path
                   /\ pg[j].project_name = fg[k].project_name
                   /\ IsSubsequence(fg[k].sessions, pg[j].sessions)

C9_Witness ==
    /\ Len(model.project_groups) = 2
    /\ Len(model.filtered_project_groups) = 2
    /\ Len(model.filtered_project_groups[1].sessions) = 1
    /\ Len(model.project_groups[1].sessions) = 2

\* C10: EnterDetail on a Project row toggles that project, stays in
\* SessionList and loads nothing; on a Session row the host loads that row's
\* session exactly once and the iteration ends in SessionDetail with that
\* session (SessionLoaded) or back in SessionList without one
\* (SessionLoadFailed).
C10_Step ==
    KeyEnterDetail =>
        LET sel == selected_tree_item(model)
        IN /\ (IsSome(sel) /\ sel[1].kind = "Project")
                => /\ model'.expanded_projects =
                        (IF sel[1].project_path \in model.expanded_projects
                         THEN model.expanded_projects \ {sel[1].project_path}
                         ELSE model.expanded_projects \cup {sel[1].project_path})
                   /\ model'.view_mode = "SessionList"
                   /\ model'.current_session = model.current_session
                   /\ load_log' = <<>>
           /\ (IsSome(sel) /\ sel[1].kind = "Session")
                => /\ load_log' = <<sel[1].session[1].session_id>>
                   /\ model'.expanded_projects = model.expanded_projects
                   /\ \/ /\ model'.view_mode = "SessionDetail"
                         /\ model'.current_session = Some(Session(sel[1].session[1]))
                      \/ /\ model'.view_mode = "SessionList"
                         /\ model'.current_session = None

C10_EnterDetail == [][C10_Step]_vars

C10_Witness ==
    /\ model.view_mode = "SessionDetail"
    /\ load_log = <<"s1">>
    /\ model.current_session = Some([id |-> "s1", project |-> "/w/b"])

Modal == {"Help", "Export"}

\* the key that leaves a modal view, and the message it must map to
ExitMessage(view_mode) == IF view_mode = "Help" THEN "CloseHelp" ELSE "CancelExport"

C11_NotStuck ==
    model.view_mode \in Modal =>
        /\ model.previous_view_mode \notin Modal
        /\ key_to_message("Esc", model.view_mode, model.export_status).type
               = ExitMessage(model.view_mode)

C11_Step ==
    /\ (model.view_mode \notin Modal /\ model'.view_mode \in Modal)
           => /\ KeyShowHelp \/ KeyStartExport
              /\ model'.previous_view_mode = model.view_mode
    /\ model.view_mode \in Modal
           => /\ model'.previous_view_mode = model.previous_view_mode
              /\ model'.view_mode \in {model.view_mode, model.previous_view_mode}
              /\ (KeyCloseHelp \/ KeyCancelExport)
                    => model'.view_mode = model.previous_view_mode

\* C11: Help and Export are entered only by ShowHelp / StartExport, which
\* record the view mode in effect; while the view is Help or Export the
\* recorded mode does not change and the view can only stay or go back to
\* it; CloseHelp / CancelExport go back to it; and in Help and Export the
\* Esc key is always mapped to that way out, which leads to a non-modal view.
C11_ReturnToEntry == [](C11_NotStuck) /\ [][C11_Step]_vars

C11_Witness ==
    /\ model.view_mode = "SessionDetail"
    /\ model.previous_view_mode = "SessionDetail"
    /\ model.export_status = None
    /\ pc = "drain"
\* a key press whose own handling can raise a new banner
RaisesError == KeyStartExport \/ KeyCopySelectedMessage \/ KeyCopySelectedMessageWithMeta

C12_Step ==
    /\ (KeyEnterDetail /\ load_log' /= <<>> /\ model'.current_session = None)
           => /\ model'.view_mode = "SessionList"
              /\ IsSome(model'.error_message)
              /\ ~model'.should_quit
    /\ (BrowseKey /\ IsSome(model.error_message) /\ ~RaisesError)
           => model'.error_message = None

\* C12: entering a Session row whose transcript file is missing is not
\* fatal: the step that performs the failed load ends in SessionList with no
\* current session and with the error banner set, and the next key press
\* clears a banner that is set.
C12_LoadFailureBanner == [][C12_Step]_vars
\* the messages of the alphabet, payloads drawn from the current model
Alphabet ==
    {Msg(t) : t \in {"Initialized", "MoveUp", "MoveDown", "EnterDetail", "BackToList",
                     "CopySelectedMessage", "CopySelectedMessageWithMeta", "Quit",
                     "None", "StartSearch", "CancelSearch", "SearchBackspace",
                     "ConfirmSearch", "StartFilter", "CancelFilter", "ApplyFilter",
                     "ClearFilter", "FilterNextField", "FilterDatePresetNext",
                     "FilterDatePresetPrev", "FilterProjectBackspace", "ShowHelp",
                     "CloseHelp", "StartExport", "ToggleExportFormat",
                     "ConfirmExport", "CancelExport", "ClearError",
                     "ExpandCurrentProject", "CollapseCurrentProject", "ExpandAll",
                     "CollapseAll"}}
        \cup {[type |-> "SelectSession", index |-> i] : i \in 0..Len(model.sessions)}
        \cup {[type |-> t, amount |-> 1] : t \in {"ScrollUp", "ScrollDown"}}
        \cup {[type |-> t, c |-> c] : t \in {"SearchInput", "FilterProjectInput"},
                                     c \in Chars}
        \cup {[type |-> "SessionLoaded", session |-> Session(model.sessions[i])] :
                 i \in 1..Len(model.sessions)}
        \cup {[type |-> t, error |-> <<"e">>] :
                 t \in {"SessionLoadFailed", "ExportFailed", "ShowError"}}
        \cup {[type |-> "ExportCompleted", path |-> <<"s1", "md">>]}
        \cup {[type |-> "ToggleProject", project_path |-> model.project_groups[i].project_path] :
                 i \in 1..Len(model.project_groups)}

\* C13: update is a function of (model, message) alone: the same message
\* applied to the same model before and after the clock has advanced gives
\* the same model.
C13_ClockIndependent ==
    [][Tick => \A msg \in Alphabet : update(model, msg)' = update(model, msg)]_vars

\* C14: after load_sessions, each (source, session id) pair occurs in at most
\* one session row of the whole project index, and the surviving row carries
\* the display text, project and timestamp of that pair's newest history
\* entry
SameSessionKey(a, b) == a.source = b.source /\ a.session_id = b.session_id

C14_LastWriteWins ==
    pc = "drain" =>
        LET rows == model.sessions
            items == result.history_items
        IN /\ \A i, j \in 1..Len(rows) : i /= j => ~SameSessionKey(rows[i], rows[j])
           /\ \A i \in 1..Len(rows) :
                 \E k \in 1..Len(items) :
                    /\ SameSessionKey(items[k], rows[i])
                    /\ \A l \in 1..Len(items) :
                          SameSessionKey(items[l], items[k])
                              => items[l].timestamp <= items[k].timestamp
                    /\ rows[i].latest_user_message = items[k].display
                    /\ rows[i].project_path = items[k].project_path
                    /\ rows[i].datetime = datetime_from_millis(items[k].timestamp)

\* C15: after load_sessions, sessions are grouped by their raw project path,
\* the sessions inside every group are in non-increasing timestamp order, and
\* the groups are in non-increasing order of their newest session's timestamp
NewestDatetime(group) ==
    CHOOSE d \in {group.sessions[i].datetime : i \in 1..Len(group.sessions)} :
        \A i \in 1..Len(group.sessions) : group.sessions[i].datetime <= d

C15_GroupedNewestFirst ==
    pc = "drain" =>
        LET groups == model.project_groups
        IN /\ \A g \in 1..Len(groups) :
                 /\ groups[g].sessions /= <<>>
                 /\ \A i \in 1..Len(groups[g].sessions) :
                       groups[g].sessions[i].project_path = groups[g].project_path
                 /\ \A h \in 1..Len(groups) :
                       g /= h => groups[g].project_path /= groups[h].project_path
                 /\ \A i \in 1..(Len(groups[g].sessions) - 1) :
                       groups[g].sessions[i].datetime >= groups[g].sessions[i + 1].datetime
           /\ \A g \in 1..(Len(groups) - 1) :
                 NewestDatetime(groups[g]) >= NewestDatetime(groups[g + 1])

\* C16: for every mix of valid lines, lines that are not JSON and lines
\* without a session id, HistoryReader::read_all and
\* CodexHistoryReader::read_all return Ok with exactly the lines that parse
\* and carry a session id; the Claude entries are in non-increasing order of
\* datetime() (an unrepresentable timestamp counts as the epoch), the Codex
\* entries in non-increasing order of ts
BagOfSeq(s) ==
    [x \in {s[i] : i \in 1..Len(s)} |-> Cardinality({i \in 1..Len(s) : s[i] = x})]

ValidLines(lines) == SelectSeq(lines, LAMBDA l : l.kind = "entry")

ClaudeWasRead == pc /= "load_claude" /\ input.claude_dir /\ IsSome(input.claude_history)

CodexWasRead == pc \in {"group", "drain"} /\ input.codex_dir /\ IsSome(input.codex_history)

C16_ExactlyValidLines ==
    /\ ClaudeWasRead =>
          /\ IsSome(result.claude_entries)
          /\ BagOfSeq(result.claude_entries[1]) = BagOfSeq(ValidLines(input.claude_history[1]))
    /\ CodexWasRead =>
          /\ IsSome(result.codex_entries)
          /\ BagOfSeq(result.codex_entries[1]) = BagOfSeq(ValidLines(input.codex_history[1]))

ReadableFiles(files) == SelectSeq(files, LAMBDA f : f.kind = "meta")

HasRowOf(item) ==
    \E i \in 1..Len(model.sessions) :
        /\ SameSessionKey(model.sessions[i], item)
        /\ model.sessions[i].project_path = item.project_path

SessionsOfReadableFiles ==
    LET codex_sessions == build_session_index(ReadableFiles(input.codex_sessions)).value
        claude == IF IsSome(input.claude_history)
                  THEN ClaudeItems(ValidLines(input.claude_history[1])) ELSE <<>>
        codex == IF IsSome(input.codex_history)
                 THEN CodexItems(ValidLines(input.codex_history[1]), codex_sessions) ELSE <<>>
    IN \A i \in 1..Len(claude \o codex) : HasRowOf((claude \o codex)[i])

C17_FileFailuresLocal ==
    (/\ input.claude_dir
     /\ input.codex_dir
     /\ \E i \in 1..Len(input.codex_sessions) :
           input.codex_sessions[i].kind \in {"unreadable", "unparseable"})
        => /\ pc /= "failed"
           /\ pc = "drain" => SessionsOfReadableFiles

\* C18: when exactly one of the two base directories does not exist,
\* load_sessions succeeds and the project index contains the sessions of the
\* source that is present
C18_EitherSourceMayBeAbsent ==
    (/\ input.claude_dir /= input.codex_dir
     /\ \A i \in 1..Len(input.codex_sessions) : input.codex_sessions[i].kind /= "unreadable")
        => /\ pc /= "failed"
           /\ pc = "drain" => SessionsOfReadableFiles

\* C19: for every string s over [A-Za-z0-9/._%-], strings that already hold
\* percent tokens included, decode_project_path(encode_project_path(s)) = s
C19_RoundTrip == pc = "done" => result.decoded = Some(input)

\* the path "%2F" has gone through both functions
C19_Witness ==
    /\ pc = "done"
    /\ input = <<"%", "2", "F">>
    /\ result.encoded = Some(<<"%", "2", "5", "2", "F">>)
    /\ result.decoded = Some(input)

\* C20: decode_project_path_from_fs(encode_project_path_for_fs(s)) has the
\* length of s and holds '/' wherever s holds '/'; it differs from s
\* whenever s holds '.', '_' or '-', so the encoding is not invertible
C20_SlashesSurvive ==
    pc = "done_fs" =>
        LET decoded == result.decoded[1]
        IN /\ Len(decoded) = Len(input)
           /\ \A i \in 1..Len(input) : input[i] = "/" => decoded[i] = "/"
           /\ (\E i \in 1..Len(input) : input[i] \in {".", "_", "-"}) => decoded /= input

\* the path "/a." comes back as "/a/"
C20_Witness ==
    /\ pc = "done_fs"
    /\ input = <<"/", "a", ".">>
    /\ result.decoded = Some(<<"/", "a", "/">>)

\* C21: search_and_filter(sessions, q, c) is the order-preserving intersection
\* of search(sessions, q) and filter(sessions, c): an index is in the result
\* exactly when it is in both, and the result is in ascending index order
Members(s) == {s[i] : i \in 1..Len(s)}

C21_Intersection ==
    pc = "searched" =>
        LET both == result.search_and_filter[1]
        IN /\ Members(both) = Members(result.search[1]) \cap Members(result.filter[1])
           /\ \A i \in 1..(Len(both) - 1) : both[i] < both[i + 1]

\* both sessions match the query, the criteria keep the second only
C21_Witness ==
    /\ pc = "searched"
    /\ input.text /= <<>>
    /\ result.search = Some(<<0, 1>>)
    /\ result.filter = Some(<<1>>)
    /\ result.search_and_filter = Some(<<1>>)

\* C22: search with an empty query and filter with no date bound and no or
\* an empty project substring return every index 0..n-1 in order; a set date
\* range keeps exactly the sessions whose timestamp lies in [from, to], an
\* unset bound being unbounded
InRange(day, range) ==
    /\ (IsSome(range.from) => range.from[1] <= day)
    /\ (IsSome(range.to) => day <= range.to[1])

NoProjectSubstring(criteria) ==
    criteria.project_filter = None \/ criteria.project_filter = Some(<<>>)

C22_IdentityAndDateRange ==
    pc = "searched" =>
        LET n == Len(input.sessions)
            all == [i \in 1..n |-> i - 1]
            range == input.criteria.date_range
        IN /\ input.text = <<>> => result.search[1] = all
           /\ (range = NoDateRange /\ NoProjectSubstring(input.criteria))
                 => result.filter[1] = all
           /\ (range /= NoDateRange /\ NoProjectSubstring(input.criteria))
                 => /\ Members(result.filter[1]) =
                          {i \in 0..(n - 1) : InRange(input.sessions[i + 1].datetime, range)}
                    /\ \A i \in 1..(Len(result.filter[1]) - 1) :
                          result.filter[1][i] < result.filter[1][i + 1]

\* a range closed at both ends keeps the session on its bound and drops the
\* one after it
C22_Witness ==
    /\ pc = "searched"
    /\ input.criteria = [date_range |-> [from |-> Some(0), to |-> Some(0)],
                         project_filter |-> Some(<<>>)]
    /\ Len(input.sessions) = 2
    /\ input.sessions[1].datetime = 0
    /\ input.sessions[2].datetime = 1
    /\ result.filter = Some(<<0>>)

\* C23: after the model backfill every assistant entry that lacked a model
\* carries the model of the nearest preceding assistant entry that had one,
\* or, when there is none, of the nearest following one; entries that had a
\* model keep it and nothing else changes; hence if any assistant entry had a
\* model, all assistant entries have one
HadModel(entries) ==
    {j \in 1..Len(entries) :
        entries[j].message.role = "assistant" /\ IsSome(entries[j].message.model)}

NearestModel(entries, i) ==
    LET before == {j \in HadModel(entries) : j < i}
        after == {j \in HadModel(entries) : j > i}
    IN IF before /= {}
       THEN entries[CHOOSE j \in before : \A k \in before : k <= j].message.model
       ELSE IF after /= {}
       THEN entries[CHOOSE j \in after : \A k \in after : j <= k].message.model
       ELSE None

C23_Filled(old, new) ==
    /\ Len(new) = Len(old)
    /\ \A i \in 1..Len(old) :
          IF old[i].message.role = "assistant" /\ ~IsSome(old[i].message.model)
          THEN new[i] = [old[i] EXCEPT !.message.model = NearestModel(old, i)]
          ELSE new[i] = old[i]
    /\ HadModel(old) /= {} =>
          \A i \in 1..Len(new) :
              new[i].message.role = "assistant" => IsSome(new[i].message.model)

C23_Backfill == [][pc' = "read" => C23_Filled(result.entries, result.entries')]_vars

\* three assistant lines of which only the second names a model
C23_Witness ==
    /\ pc = "read"
    /\ Len(input) = 3
    /\ \A i \in 1..3 : input[i].line_type = "response_item" /\ input[i].role = "assistant"
    /\ input[1].model = None /\ input[2].model = Some("m1") /\ input[3].model = None
    /\ Len(result.entries) = 3
    /\ \A i \in 1..3 : result.entries[i].message.model = Some("m1")

\* C24: a token-count event attaches its Usage to the most recently appended
\* assistant entry only if that entry has no Usage yet; once an entry has a
\* Usage no later line of the file changes it; a token-count event seen
\* before any assistant entry attaches to nothing
Assistants(entries) ==
    {j \in 1..Len(entries) : entries[j].message.role = "assistant"}

IsLastAssistant(entries, i) ==
    i \in Assistants(entries) /\ \A j \in Assistants(entries) : j <= i

IsTokenCount(line) ==
    line.line_type = "event_msg" /\ line.payload_type = "token_count" /\ IsSome(line.usage)

C24_Step ==
    LET old == result.entries
        new == result.entries'
    IN /\ Len(new) >= Len(old)
       /\ \A i \in 1..Len(old) :
             /\ IsSome(old[i].message.usage) => new[i].message.usage = old[i].message.usage
             /\ new[i].message.usage /= old[i].message.usage =>
                   /\ pc' = "scan"
                   /\ IsTokenCount(input[result.line + 1])
                   /\ IsLastAssistant(old, i)
                   /\ new[i].message.usage = input[result.line + 1].usage
       /\ (pc' = "scan" /\ IsTokenCount(input[result.line + 1])) =>
             /\ Len(new) = Len(old)
             /\ \A i \in 1..Len(old) :
                   (IsLastAssistant(old, i) /\ ~IsSome(old[i].message.usage))
                       => new[i].message.usage = input[result.line + 1].usage
             /\ Assistants(old) = {} => new = old

C24_UsageAttachedOnce == [][C24_Step]_vars

\* an assistant line followed by two token-count events: the entry carries
\* the counts of the first
C24_Witness ==
    /\ pc = "read"
    /\ Len(input) = 3
    /\ input[1].role = "assistant" /\ input[1].content /= <<>> /\ input[1].usage = None
    /\ IsTokenCount(input[2])
    /\ IsTokenCount(input[3])
    /\ Len(result.entries) = 1
    /\ result.entries[1].message.usage = Some(2)

\* C25: every entry the Codex reader produces comes from a response_item
\* line whose payload type is "message" with role user or assistant, and has
\* non-empty display text; a line with no extractable text produces no
\* entry; the entries are in file order
C25_EntriesHaveText ==
    LET entries == result.entries
    IN /\ \A k \in 1..Len(entries) :
             /\ entries[k].timestamp \in 1..result.line
             /\ input[entries[k].timestamp].line_type = "response_item"
             /\ input[entries[k].timestamp].payload_type = "message"
             /\ input[entries[k].timestamp].role \in {"user", "assistant"}
             /\ IsSome(display_text(entries[k]))
       /\ \A i \in 1..result.line :
             all_text_content(input[i]) = <<>>
                 => \A k \in 1..Len(entries) : entries[k].timestamp /= i
       /\ \A k \in 1..(Len(entries) - 1) : entries[k].timestamp < entries[k + 1].timestamp

\* C26: write_to_file never overwrites an existing file: whatever the
\* directory held before, every call writes to a path that did not exist
\* before it, so n calls in a row with the same file name yield n distinct
\* paths, the second ending in _1
C26_NeverOverwrites ==
    pc = "write" =>
        /\ \A k \in 1..Len(result.paths) :
              /\ result.paths[k] \notin input
              /\ \A j \in 1..(k - 1) : result.paths[j] /= result.paths[k]
        /\ (input = {} /\ Len(result.paths) >= 2) => result.paths[2] = Some(1)

\* C27: generate_filename produces
\* {sanitized project}_{YYYYMMDD_HHMM or "unknown"}_{first 8 characters of
\* the session id}.{md or json}, where every character of the project name
\* outside [A-Za-z0-9_-] is replaced by '_', so the sanitized part holds only
\* characters of [A-Za-z0-9_-]
Portable == {"a", "Z", "7", "-", "_"}

C27_Filename ==
    pc = "named" =>
        \E sanitized \in [1..Len(Session_project_name(input.session.project)) -> Portable] :
            /\ \A i \in DOMAIN sanitized :
                  LET c == Session_project_name(input.session.project)[i]
                  IN sanitized[i] = IF c \in Portable THEN c ELSE "_"
            /\ \E date \in {<<"2", "0", "2", "5", "0", "1", "1", "5", "_", "1", "0", "0", "0">>,
                             <<"u", "n", "k", "n", "o", "w", "n">>} :
                  /\ (date = <<"u", "n", "k", "n", "o", "w", "n">>) = (input.session.started_at = None)
                  /\ \E k \in 0..8 :
                        /\ k <= Len(input.session.id)
                        /\ k = 8 \/ k = Len(input.session.id)
                        /\ \E ext \in {<<"m", "d">>, <<"j", "s", "o", "n">>} :
                              /\ (ext = <<"m", "d">>) = (input.format = "Markdown")
                              /\ result[1] = sanitized \o <<"_">> \o date \o <<"_">>
                                                \o SubSeq(input.session.id, 1, k) \o <<".">> \o ext

\* C28: the cost rate is found by case-insensitive substring matching in
\* which a more specific key wins over a family key it extends (a model
\* containing "gpt-5.2-pro" gets the pro rate, not the "gpt-5.2" or "gpt-5"
\* rate); a model matching no key has no rate and so no cost (shown as
\* "n/a"), never a zero cost
RateKeys ==
    { [key |-> <<"claude", "-", "4", "-", "5", "-", "opus">>, rate |-> CostRate(500, 2500)],
      [key |-> <<"claude", "-", "4", "-", "opus">>, rate |-> CostRate(500, 2500)],
      [key |-> <<"opus", "-", "4", "-", "5">>, rate |-> CostRate(500, 2500)],
      [key |-> <<"opus", "-", "4">>, rate |-> CostRate(500, 2500)],
      [key |-> <<"claude", "-", "3", "-", "5", "-", "sonnet">>, rate |-> CostRate(300, 1500)],
      [key |-> <<"claude", "-", "3", "-", "7", "-", "sonnet">>, rate |-> CostRate(300, 1500)],
      [key |-> <<"claude", "-", "3", "-", "5", "-", "haiku">>, rate |-> CostRate(25, 125)],
      [key |-> <<"claude", "-", "3", "-", "haiku">>, rate |-> CostRate(25, 125)],
      [key |-> <<"claude", "-", "3", "-", "opus">>, rate |-> CostRate(1500, 7500)],
      [key |-> <<"claude", "-", "3", "-", "sonnet">>, rate |-> CostRate(300, 1500)],
      [key |-> <<"gpt", "-", "5", ".", "2", "-", "pro">>, rate |-> CostRate(2100, 16800)],
      [key |-> <<"gpt", "-", "5", "-", "pro">>, rate |-> CostRate(1500, 12000)],
      [key |-> <<"gpt", "-", "5", ".", "2">>, rate |-> CostRate(175, 1400)],
      [key |-> <<"gpt", "-", "5", "-", "2">>, rate |-> CostRate(175, 1400)],
      [key |-> <<"gpt", "-", "5", "-", "mini">>, rate |-> CostRate(25, 200)],
      [key |-> <<"gpt", "-", "5", "-", "nano">>, rate |-> CostRate(5, 40)],
      [key |-> <<"gpt", "-", "5">>, rate |-> CostRate(125, 1000)] }

ContainedKeys(model_name) ==
    {k \in RateKeys : contains(to_lowercase(model_name), k.key)}

C28_SpecificKeyWins ==
    (pc = "priced" /\ input.model /= None) =>
        LET keys == ContainedKeys(input.model[1])
        IN /\ (keys = {}) = (result[1].rate = None)
           /\ keys /= {} =>
                 \E k \in keys :
                    /\ result[1].rate = Some(k.rate)
                    /\ \A longer \in keys :
                          (longer.key /= k.key /\ contains(longer.key, k.key))
                              => longer.rate = k.rate
           /\ (keys = {} /\ result[1].meta /= None) =>
                 /\ result[1].meta[1].cost_text = "n/a"
                 /\ result[1].meta[1].cost_is_na

\* GPT-5.2-pro, in capitals, is priced at the pro rate
C28_Witness ==
    /\ pc = "priced"
    /\ input.model = Some(<<"GPT", "-", "5", ".", "2", "-", "pro">>)
    /\ result[1].rate = Some(CostRate(2100, 16800))
    /\ result[1].meta /= None
    /\ result[1].meta[1].cost_text = "cost"

\* C29: the count mode reports the number of valid history entries, the
\* number of distinct session ids and the five projects with the highest
\* entry counts, without starting the terminal UI
ValidCountLines == SelectSeq(input.history[1], LAMBDA l : l.kind = "entry")

ShownProjects == {result[1].shown[i].project : i \in DOMAIN result[1].shown}

EntriesOf(project) == Len(SelectSeq(ValidCountLines, LAMBDA l : l.project = project))

C29_CountReport ==
    /\ input.count_sessions => pc /= "tui"
    /\ pc = "counted" =>
          /\ result[1].total_entries = Len(ValidCountLines)
          /\ result[1].unique_sessions =
                Cardinality({ValidCountLines[i].session_id : i \in DOMAIN ValidCountLines})
          /\ \A i \in DOMAIN result[1].shown :
                result[1].shown[i].entries = EntriesOf(result[1].shown[i].project)
          /\ \A p \in ShownProjects :
                \A q \in {ValidCountLines[i].project : i \in DOMAIN ValidCountLines} :
                   q \notin ShownProjects => EntriesOf(p) >= EntriesOf(q)

\* C30: in every iteration of the main loop the completion messages pending
\* on the channel are all received and applied to the reducer before the
\* frame is rendered and before the next input event is polled: a message
\* leaves the channel only in the receive loop, which hands it to update;
\* the loop goes on to render and poll only once the channel is empty; and
\* after the poll the next iteration starts with the receive loop again
C30_Step ==
    /\ Len(async_chan') < Len(async_chan)
          => /\ pc = "drain" /\ pc' = "drain"
             /\ async_chan' = Tail(async_chan)
             /\ model' = update(model, Head(async_chan))
    /\ (pc = "drain" /\ pc' /= "drain")
          => /\ async_chan = <<>>
             /\ pc' = "poll"
             /\ model' = model
    /\ (pc = "poll" /\ pc' /= "poll") => pc' \in {"drain", "done"}
    /\ pc = "poll"
          => /\ Len(async_chan') >= Len(async_chan)
             /\ SubSeq(async_chan', 1, Len(async_chan)) = async_chan

C30_DrainBeforeRender == [][C30_Step]_vars

\* a frame is drawn that shows the finished export: the worker's message
\* was on the channel, has been received and applied, and nothing is pending
C30_Witness ==
    /\ pc = "poll"
    /\ async_chan = <<>>
    /\ workers = EmptyBag
    /\ StatusTag(model) = "Success"

\* C31: ClearFilter either clears or quits, never both: with a search text
\* or a filter it resets the query, the criteria, the filter inputs and the
\* filtered view and leaves should_quit false; it sets should_quit only when
\* no search text and no filter criterion is set
C31_Step ==
    (pc = "poll" /\ model.view_mode = "SessionList" /\ ~model.should_quit)
        => /\ model'.should_quit
                => /\ model.search_text = <<>>
                   /\ ~FilterCriteria_is_set(model.filter_criteria)
                   /\ model' = [model EXCEPT !.should_quit = TRUE]
           /\ (model.is_filtered \/ model.search_text /= <<>>)
                => /\ ~model'.should_quit
                   /\ (model'.view_mode = "SessionList" /\ model' /= model)
                         => /\ model'.search_text = <<>>
                            /\ model'.filter_criteria = NoCriteria
                            /\ model'.filter_project_input = <<>>
                            /\ model'.date_preset_index = 0
                            /\ ~model'.is_filtered
                            /\ model'.filtered_indices = <<>>
                            /\ model'.filtered_project_groups = <<>>

C31_ClearOrQuit == [][C31_Step]_vars

\* C32: toggle_project is an involution on the tree: toggling a group with
\* n sessions changes the number of flattened rows by exactly n (more rows
\* on expand, fewer on collapse), and toggling the same project path again
\* restores expanded_projects and the flattened rows
ShownGroups(path) ==
    SelectSeq(active_project_groups(model), LAMBDA g : g.project_path = path)

C32_Toggled(path) == update(model, [type |-> "ToggleProject", project_path |-> path])

C32_ToggledTwice(path) ==
    update(C32_Toggled(path), [type |-> "ToggleProject", project_path |-> path])

C32_ToggleInvolution ==
    \A i \in 1..Len(model.project_groups) :
        LET path == model.project_groups[i].project_path
            n == IF ShownGroups(path) = <<>> THEN 0 ELSE Len(ShownGroups(path)[1].sessions)
        IN /\ Len(C32_Toggled(path).tree_items) =
                 IF path \in model.expanded_projects
                 THEN Len(model.tree_items) - n
                 ELSE Len(model.tree_items) + n
           /\ (path \in C32_Toggled(path).expanded_projects)
                 = (path \notin model.expanded_projects)
           /\ C32_ToggledTwice(path).expanded_projects = model.expanded_projects
           /\ C32_ToggledTwice(path).tree_items = model.tree_items

\* a group of two sessions has been toggled open while another is closed
C32_Witness ==
    /\ ~model.is_filtered
    /\ \E i, j \in 1..Len(model.project_groups) :
          /\ Len(model.project_groups[i].sessions) = 2
          /\ model.project_groups[i].project_path \in model.expanded_projects
          /\ model.project_groups[j].project_path \notin model.expanded_projects
          /\ Len(model.tree_items) = Len(model.project_groups) + 2

\* C33: Ctrl+C is mapped to Quit in every view mode and every export
\* sub-state, and once the reducer has processed Quit the main loop ends at
\* the end of that iteration: should_quit is never reset, the iteration that
\* sets it is the last one, and nothing runs after it, also while an export
\* job is still in flight
C33_ViewModes == {"SessionList", "SessionDetail", "Search", "Filter", "Help", "Export"}

C33_ExportStates ==
    {None, Some(Selecting), Some(Exporting)}
        \cup {Some(ExportStatus(tag, arg)) : tag \in {"Success", "Error"},
                                             arg \in {<<"s1", "md">>, <<"missing">>}}

C33_Step ==
    /\ \A view_mode \in C33_ViewModes, export_status \in C33_ExportStates :
          key_to_message("Ctrl+c", view_mode, export_status) = Msg("Quit")
    /\ pc = "poll" => update(ClearedError(model, Msg("Quit")), Msg("Quit")).should_quit
    /\ model.should_quit => model'.should_quit
    /\ (model'.should_quit /\ ~model.should_quit) => (pc = "poll" /\ pc' = "done")
    /\ pc' = "done" => model'.should_quit
    /\ pc = "done" => UNCHANGED vars

C33_CtrlCQuits == [][C33_Step]_vars

\* the loop has ended on Quit while an export thread has not yet sent its
\* result
C33_Witness ==
    /\ pc = "done"
    /\ model.should_quit
    /\ model.view_mode = "Export"
    /\ model.export_status = Some(Exporting)
    /\ workers /= EmptyBag

\* C34: in every reachable state is_filtered is true exactly when the
\* search text is non-empty or a filter criterion (date range or project
\* substring) is set, and the filtered indices are those of the stored
\* query and criteria
C34_FilteredIffCriteria ==
    /\ model.is_filtered
          = (model.search_text /= <<>> \/ FilterCriteria_is_set(model.filter_criteria))
    /\ model.is_filtered
          => model.filtered_indices
                = search_and_filter(model.sessions, model.search_text, model.filter_criteria)

\* C35: cancelling the filter panel discards the edits: after StartFilter,
\* any FilterDatePresetNext / FilterDatePresetPrev / FilterProjectInput /
\* FilterProjectBackspace / FilterNextField, and CancelFilter, the
\* filter_criteria, is_filtered, filtered_indices and the flattened tree are
\* what they were before StartFilter, and so is the result of a later search
FilterEdits ==
    {Msg("FilterDatePresetNext"), Msg("FilterDatePresetPrev"),
     Msg("FilterProjectBackspace"), Msg("FilterNextField")}
        \cup {[type |-> "FilterProjectInput", c |-> c] : c \in Chars}

RECURSIVE UpdateAll(_, _)
UpdateAll(m, msgs) ==
    IF msgs = <<>> THEN m ELSE UpdateAll(update(m, Head(msgs)), Tail(msgs))

C35_CancelDiscardsEdits ==
    (pc = "poll" /\ model.view_mode = "SessionList")
        => \A n \in 0..MaxTextLen : \A edits \in [1..n -> FilterEdits] :
              LET cancelled == UpdateAll(model, <<Msg("StartFilter")>> \o edits
                                                    \o <<Msg("CancelFilter")>>)
              IN /\ cancelled.filter_criteria = model.filter_criteria
                 /\ cancelled.is_filtered = model.is_filtered
                 /\ cancelled.filtered_indices = model.filtered_indices
                 /\ cancelled.tree_items = model.tree_items
                 /\ update(cancelled, Msg("ConfirmSearch")).filtered_indices
                       = update(model, Msg("ConfirmSearch")).filtered_indices

\* C36: export_status is Some exactly when view_mode is Export, in every
\* reachable state of the main loop and for every timing of the worker's
\* completion message
C36_StatusOnlyInDialog == IsSome(model.export_status) = (model.view_mode = "Export")

\* C37: the session that gets exported is the selected one: whenever the
\* export dialog is open, entered from the session list on a Session row,
\* the current_session a confirmed export serializes has the session id of
\* the selected tree row, whatever navigation, export and cancel actions
\* came before
C37_ExportsSelected ==
    LET sel == selected_tree_item(model)
    IN (/\ model.view_mode = "Export"
        /\ model.previous_view_mode = "SessionList"
        /\ IsSome(sel)
        /\ sel[1].kind = "Session")
          => /\ IsSome(model.current_session)
             /\ model.current_session[1].id = sel[1].session[1].session_id

\* C38: at every render of the main loop, if view_mode is SessionDetail (or
\* Help / Export entered from SessionDetail) then current_session is loaded:
\* the detail view is never drawn without a session
needs_detail(m) ==
    \/ m.view_mode = "SessionDetail"
    \/ /\ m.view_mode \in {"Help", "Export"}
       /\ m.previous_view_mode = "SessionDetail"

C38_Step ==
    (pc = "drain" /\ pc' = "poll" /\ needs_detail(model)) => IsSome(model.current_session)

C38_DetailHasSession == [][C38_Step]_vars

\* the export dialog, opened from the detail view, has been drawn over a
\* loaded session
C38_Witness ==
    /\ pc = "poll"
    /\ model.view_mode = "Export"
    /\ model.previous_view_mode = "SessionDetail"
    /\ IsSome(model.current_session)

\* C39: no two export jobs ever write to the same path: for every
\* interleaving of the existence check and the write of export workers
\* that compute the same filename for the same directory, each worker
\* writes to a path distinct from every other worker's
C39_DistinctPaths ==
    \A v, w \in 1..MaxWorkers :
        (v /= w /\ result.written[v] /= None /\ result.written[w] /= None)
            => result.written[v] /= result.written[w]
====
